---- MODULE Spec2Model ----
(***************************************************************************)
(* Model of the bare-metal ARM runtime: the systime callback table         *)
(* (09_context_switch/src/systime.c), the timer-driven scheduler           *)
(* (09_context_switch/src/sched_preemptive.c), the cooperative scheduler   *)
(* (08_scheduler/src/sched.c) and the top-level interrupt handler.         *)
(***************************************************************************)
EXTENDS Integers, Sequences, FiniteSets, TLC

VARIABLES
    systime,              \* static volatile systime_t systime
    callback_table,       \* static callback_entry callback_table[MAX_NUM_CALLBACKS]
    callback_table_mask,  \* static uint16_t callback_table_mask
    sched_ret,            \* result code of the last systime_schedule_event call
    nticks,               \* history: number of systime_tick calls so far (not wrapping)
    nsched,               \* history: number of systime_schedule_event calls so far
    invoked,              \* history: slots whose callback the last systime_tick invoked, in order
    due_before,           \* history: slots check_callbacks found due at the last systime_tick
    live,                 \* history: slots holding an event that was scheduled and not yet freed
    last_invoked,         \* history: slot -> nticks at the last invocation of its event
    prev_invoked,         \* history: slot -> nticks at the invocation before that
    waiting,              \* history: slot -> the tick since which its event is due and passed over
    deferrals,            \* history: slot -> number of ticks at which its due event was passed over
    task_table,           \* static task_desc task_table[MAX_NUM_TASKS]
    table_idx,            \* static uint8_t table_idx
    current_task,         \* static task_desc* current_task (an index of task_table, or NULL_TASK)
    main_pc,              \* position of the mainline code (main, then sched_run)
    loop_i,               \* the loop variable i of sched_run
    task_stack,           \* task entries that were entered and have not returned yet, innermost last
    irq_pc,               \* position of irq_handler: idle, acked, reacted
    irq_id,               \* the identifier gic_acknowledge_interrupt returned to irq_handler
    irq_trace,            \* history: the calls irq_handler made in its current or last invocation
    req_entered,          \* history: the task current_task designates was entered since it was written
    entries,              \* history: task -> number of times the run loop entered it
    overrun,              \* history: the run loop took more than one tick over a request
    start_tick,           \* history: nticks when sched_run reached its run loop
    busy_ticks,           \* history: ticks seen while the run loop is serving a request
    coop_check,           \* history: the last due test of the cooperative sched_run
    switch_log,           \* the transitions task_switch_callback has written to the UART
    add_calls,            \* history: the result codes of the sched_add_task calls so far
    cpu,                  \* the processor: CPSR, banked SPSR, LR and stacks, a few registers
    ptimer,               \* the private timer: its event flag, and how often it has expired
    gic_dregs,            \* the distributor's registers that were written, by byte offset
    gic_ifregs,           \* the CPU interface's registers CCPMR, CCTLR and CEOIR
    regs,                 \* the private timer's registers LR and CTRL
    isr_table,            \* the isr registry: interrupt identifier -> registered isr
    drv_call              \* history: the last driver call, its argument and its result

timevars == <<systime, callback_table, callback_table_mask, sched_ret, nticks, nsched,
              invoked, due_before, live, last_invoked, prev_invoked, waiting, deferrals>>

schedvars == <<task_table, table_idx, current_task, main_pc, loop_i, task_stack,
               req_entered, entries, overrun, start_tick, busy_ticks>>

irqvars == <<irq_pc, irq_id, irq_trace>>

auxvars == <<coop_check, switch_log, add_calls, cpu, ptimer>>

hwvars == <<gic_dregs, gic_ifregs, regs, isr_table, drv_call>>

vars == <<timevars, schedvars, irqvars, auxvars, hwvars>>

---------------------------------------------------------------------------
(* Bounds of the model *)

MaxTicks == 6
MaxSchedTicks == 4
MaxTasks == 2
MaxTaskPeriod == 2
MaxEvents == 2
MaxDelay == 1
MaxPeriod == 2
NearWrap == 3
MaxCoopTicks == 14
MaxCoopTasks == 2
ShortPeriod == 3
LongPeriod == 100
CoopNearWrap == 11

---------------------------------------------------------------------------
(* Program constants and types *)

\* typedef uint32_t systime_t: a 32-bit unsigned value is kept as its two 16-bit
\* halves, and its arithmetic is modulo 2^32
W16 == 2 ^ 16

u32(n) == [hi |-> (n \div W16) % W16, lo |-> n % W16]

u32_add(a, b) ==
    LET lo == a.lo + b.lo
    IN  [hi |-> (a.hi + b.hi + (lo \div W16)) % W16, lo |-> lo % W16]

u32_sub(a, b) ==
    LET lo == a.lo - b.lo
        borrow == IF lo < 0 THEN 1 ELSE 0
    IN  [hi |-> (a.hi - b.hi - borrow + 2 * W16) % W16, lo |-> (lo + W16) % W16]

u32_le(a, b) == a.hi < b.hi \/ (a.hi = b.hi /\ a.lo <= b.lo)

u32_ge(a, b) == u32_le(b, a)

u32_gt(a, b) == ~u32_le(a, b)

UINT32_MAX == [hi |-> W16 - 1, lo |-> W16 - 1]

MAX_NUM_CALLBACKS == 16

MAX_NUM_TASKS == 10

PTIMER_INTERRUPT == 29

\* the processor modes (.equ MODE_USR, 0x10 ...)
MODE_USR == 16
MODE_IRQ == 18
MODE_SVC == 19
MODE_SYS == 31

UART0_INTERRUPT == 37

\* the width of the interrupt-identifier field of the acknowledge register (0x3FF);
\* the all-ones identifier is the one the controller returns when no line is pending
CIAR_ID_MASK == 1023

Slots == 0 .. (MAX_NUM_CALLBACKS - 1)

\* static uint16_t callback_table_mask
U16 == 2 ^ 16

\* callback_table_mask & (1 << slot)
MaskBit(mask, slot) == ((mask \div (2 ^ slot)) % 2) = 1

\* callback_table_mask |= (1 << slot)
MaskSet(mask, slot) == IF MaskBit(mask, slot) THEN mask ELSE (mask + 2 ^ slot) % U16

\* callback_table_mask &= ~(1 << slot)
MaskClear(mask, slot) == IF MaskBit(mask, slot) THEN mask - 2 ^ slot ELSE mask

\* callback_table[...] = {0}
EmptyEntry == [time |-> u32(0), period |-> 0, cb |-> "NULL", arg |-> 0]

SYSTIME_CALLBACK_OK == "SYSTIME_CALLBACK_OK"

SYSTIME_NO_CALLBACK_SLOTS == "SYSTIME_NO_CALLBACK_SLOTS"

---------------------------------------------------------------------------
(* systime.c: the callback table *)

\* the same without the test of the slot's bit: an occupied slot is overwritten
add_callback_overwrite(table, mask, timestamp, period, callback, arg, slot) ==
    [ok |-> TRUE,
     table |-> [table EXCEPT ![slot] =
                   [time |-> timestamp, period |-> period, cb |-> callback, arg |-> arg]],
     mask |-> MaskSet(mask, slot)]

\* add_callback: refuses an occupied slot, otherwise stores the entry and sets the bit
add_callback(table, mask, timestamp, period, callback, arg, slot) ==
    IF MaskBit(mask, slot)
    THEN [ok |-> FALSE, table |-> table, mask |-> mask]
    ELSE [ok |-> TRUE,
          table |-> [table EXCEPT ![slot] =
                        [time |-> timestamp, period |-> period, cb |-> callback, arg |-> arg]],
          mask |-> MaskSet(mask, slot)]

RECURSIVE schedule_from(_, _, _, _, _, _, _)
schedule_from(slot, table, mask, timestamp, period, callback, arg) ==
    IF slot >= MAX_NUM_CALLBACKS
    THEN [ret |-> SYSTIME_NO_CALLBACK_SLOTS, table |-> table, mask |-> mask, slot |-> -1]
    ELSE LET r == add_callback(table, mask, timestamp, period, callback, arg, slot)
         IN  IF r.ok
             THEN [ret |-> SYSTIME_CALLBACK_OK, table |-> r.table, mask |-> r.mask, slot |-> slot]
             ELSE schedule_from(slot + 1, table, mask, timestamp, period, callback, arg)

\* systime_schedule_event: the first slot add_callback accepts, or the table-full result
systime_schedule_event(table, mask, timestamp, period, callback, arg) ==
    schedule_from(0, table, mask, timestamp, period, callback, arg)

\* the due test of check_callbacks: systime >= callback_table[slot].time
IsDue(table, mask, now, slot) == MaskBit(mask, slot) /\ u32_ge(now, table[slot].time)

\* the same body with its else lost: the slot is freed whatever the period
Rearm_always_free(table, mask, now, slot) ==
    [table |-> IF table[slot].period # 0
               THEN [table EXCEPT ![slot].time = u32_add(now, u32(table[slot].period))]
               ELSE table,
     mask |-> MaskClear(mask, slot)]

\* the body of check_callbacks for a due slot: re-arm a periodic entry, free a one-shot
Rearm(table, mask, now, slot) ==
    IF table[slot].period # 0
    THEN [table |-> [table EXCEPT ![slot].time = u32_add(now, u32(table[slot].period))],
          mask |-> mask]
    ELSE [table |-> table, mask |-> MaskClear(mask, slot)]

RECURSIVE scan_from(_, _, _, _)
scan_from(slot, table, mask, now) ==
    IF slot >= MAX_NUM_CALLBACKS
    THEN [table |-> table, mask |-> mask, invoked |-> <<>>]
    ELSE IF IsDue(table, mask, now, slot)
         THEN LET r == Rearm(table, mask, now, slot)
              IN  \* callback entry, then break
                  [table |-> r.table, mask |-> r.mask, invoked |-> <<slot>>]
         ELSE scan_from(slot + 1, table, mask, now)

\* the loop of check_callbacks run from the last slot down to the first
RECURSIVE scan_down_from(_, _, _, _)
scan_down_from(slot, table, mask, now) ==
    IF slot < 0
    THEN [table |-> table, mask |-> mask, invoked |-> <<>>]
    ELSE IF IsDue(table, mask, now, slot)
         THEN LET r == Rearm(table, mask, now, slot)
              IN  [table |-> r.table, mask |-> r.mask, invoked |-> <<slot>>]
         ELSE scan_down_from(slot - 1, table, mask, now)

check_callbacks_highest_first(table, mask, now) ==
    scan_down_from(MAX_NUM_CALLBACKS - 1, table, mask, now)

\* the loop of check_callbacks without its break (the first version of the chapter)
RECURSIVE scan_all_from(_, _, _, _)
scan_all_from(slot, table, mask, now) ==
    IF slot >= MAX_NUM_CALLBACKS
    THEN [table |-> table, mask |-> mask, invoked |-> <<>>]
    ELSE IF IsDue(table, mask, now, slot)
         THEN LET r == Rearm(table, mask, now, slot)
                  rest == scan_all_from(slot + 1, r.table, r.mask, now)
              IN  [table |-> rest.table, mask |-> rest.mask,
                   invoked |-> <<slot>> \o rest.invoked]
         ELSE scan_all_from(slot + 1, table, mask, now)

check_callbacks_nobreak(table, mask, now) == scan_all_from(0, table, mask, now)

\* check_callbacks: scans the slots in order and invokes the first due callback
check_callbacks(table, mask, now) == scan_from(0, table, mask, now)

---------------------------------------------------------------------------
(* sched_preemptive.c: the task table and the timer-driven scheduler *)

TaskIds == 0 .. (MAX_NUM_TASKS - 1)

\* current_task = NULL; systime.c keeps the same fact as current_task_id = MAX_NUM_TASKS
NULL_TASK == MAX_NUM_TASKS

\* task_table[...] = {0}
EmptyTask == [id |-> 0, entry |-> "NULL", period |-> 0, last_run |-> u32(0)]

SCHED_OK == "SCHED_OK"

SCHED_TOO_MANY_TASKS == "SCHED_TOO_MANY_TASKS"

\* the same with the capacity test off by one: table_idx > MAX_NUM_TASKS
sched_add_task_off_by_one(table, idx, entry, period) ==
    IF idx > MAX_NUM_TASKS
    THEN [ret |-> SCHED_TOO_MANY_TASKS, table |-> table, idx |-> idx]
    ELSE [ret |-> SCHED_OK,
          table |-> [i \in (DOMAIN table) \cup {idx} |->
                        IF i = idx
                        THEN [id |-> idx, entry |-> entry, period |-> period,
                              last_run |-> u32(0)]
                        ELSE table[i]],
          idx |-> idx + 1]

\* sched_add_task: appends a task descriptor, or fails when the table is full
sched_add_task(table, idx, entry, period) ==
    IF idx >= MAX_NUM_TASKS
    THEN [ret |-> SCHED_TOO_MANY_TASKS, table |-> table, idx |-> idx]
    ELSE [ret |-> SCHED_OK,
          table |-> [table EXCEPT ![idx] =
                        [id |-> idx, entry |-> entry, period |-> period, last_run |-> u32(0)]],
          idx |-> idx + 1]

\* the callback as the chapter first tried it: it also enters the task, from the
\* interrupt handler (current_task->entry() after the assignment)
task_switch_callback_entering(arg, st) ==
    IF st.current_task # NULL_TASK /\ task_table[arg].id = task_table[st.current_task].id
    THEN st
    ELSE [st EXCEPT !.log = Append(@, [time |-> st.now, from |-> st.current_task,
                                       to |-> task_table[arg].id]),
                    !.current_task = task_table[arg].id,
                    !.req_entered = TRUE,
                    !.task_stack = Append(@, [id |-> task_table[arg].id, ctx |-> "irq"])]

\* task_switch_callback: arg points at the id of a task; unless that task is the
\* current one, logs the transition ("Switching context! Time <systime>; <current
\* id or (idle)> --> <new id>") and makes it the current task
task_switch_callback(arg, st) ==
    IF st.current_task # NULL_TASK /\ task_table[arg].id = task_table[st.current_task].id
    THEN st
    ELSE [st EXCEPT !.log = Append(@, [time |-> st.now, from |-> st.current_task,
                                       to |-> task_table[arg].id]),
                    !.current_task = task_table[arg].id,
                    !.req_entered = FALSE]

\* the callbacks check_callbacks invoked, applied in order to the scheduler's state
RECURSIVE run_callbacks(_, _, _)
run_callbacks(inv, table, st) ==
    IF inv = <<>>
    THEN st
    ELSE LET e == table[Head(inv)]
             st2 == IF e.cb = "task_switch_callback" THEN task_switch_callback(e.arg, st) ELSE st
         IN  run_callbacks(Tail(inv), table, st2)

---------------------------------------------------------------------------
(* History of the callback table *)

SeqToSet(s) == {s[i] : i \in 1 .. Len(s)}

DueSet(table, mask, now) == {s \in Slots : IsDue(table, mask, now, s)}

\* a history function without the slots in `gone`
Without(f, gone) == [s \in (DOMAIN f) \ gone |-> f[s]]

\* the history after a systime_tick that found `due` due and invoked `inv`
TickHistory(due, inv, n) ==
    /\ nticks' = n
    /\ invoked' = inv
    /\ due_before' = due
    /\ live' = live \ {s \in SeqToSet(inv) : callback_table[s].period = 0}
    /\ prev_invoked' = [s \in (DOMAIN prev_invoked) \cup (SeqToSet(inv) \cap DOMAIN last_invoked) |->
                          IF s \in SeqToSet(inv) THEN last_invoked[s] ELSE prev_invoked[s]]
    /\ last_invoked' = [s \in (DOMAIN last_invoked) \cup SeqToSet(inv) |->
                          IF s \in SeqToSet(inv) THEN n ELSE last_invoked[s]]
    /\ deferrals' = [s \in (DOMAIN deferrals) \cup (due \ SeqToSet(inv)) |->
                        (IF s \in DOMAIN deferrals THEN deferrals[s] ELSE 0)
                        + (IF s \in due \ SeqToSet(inv) THEN 1 ELSE 0)]
    /\ waiting' = [s \in due \ SeqToSet(inv) |->
                      IF s \in DOMAIN waiting THEN waiting[s]
                      ELSE [since |-> n, k |-> Cardinality(due)]]

---------------------------------------------------------------------------
(* The time service on its own: schedule_event and tick in any order *)

\* the counter when the first event is scheduled: freshly booted, or after the
\* board has been up for NearWrap ticks less than 2^32
StartTimes == {u32(0), u32_sub(u32(0), u32(NearWrap))}

\* the callback table and its history before anything is scheduled
InitTime ==
    /\ callback_table = [s \in Slots |-> EmptyEntry]
    /\ callback_table_mask = 0
    /\ sched_ret = SYSTIME_CALLBACK_OK
    /\ nticks = 0
    /\ nsched = 0
    /\ invoked = <<>>
    /\ due_before = {}
    /\ live = {}
    /\ last_invoked = <<>>
    /\ prev_invoked = <<>>
    /\ waiting = <<>>
    /\ deferrals = <<>>

\* task_table = {0}, table_idx = 0; current_task is a zero-initialised static
InitSched ==
    /\ task_table = [i \in TaskIds |-> EmptyTask]
    /\ table_idx = 0
    /\ current_task = NULL_TASK
    /\ main_pc = "main"
    /\ loop_i = 0
    /\ task_stack = <<>>
    /\ req_entered = FALSE
    /\ entries = <<>>
    /\ overrun = FALSE
    /\ start_tick = 0
    /\ busy_ticks = 0

InitIrq ==
    /\ irq_pc = "idle"
    /\ irq_id = 0
    /\ irq_trace = <<>>

\* no due test has been made
NoCheck == [last_run |-> u32(0), period |-> 0, now |-> u32(0), invoked |-> TRUE]

\* a word of a register or of a stack: a saved CPSR, a code address, a number, or
\* a value the model does not follow
CpsrWord(cpsr) == [kind |-> "cpsr", cpsr |-> cpsr, addr |-> "none", val |-> 0]

AddrWord(addr) ==
    [kind |-> "addr", cpsr |-> [mode |-> 0, I |-> 0, F |-> 0, T |-> 0], addr |-> addr,
     val |-> 0]

ValWord(val) == [AddrWord("none") EXCEPT !.kind = "val", !.val = val]

NoWord == AddrWord("none")

\* a word read from beyond the end of a stack
Garbage == AddrWord("garbage")

\* the processor status when main has called cpu_enable_interrupts (cpsie if):
\* supervisor mode, IRQ and FIQ enabled, ARM state (T, bit 5, clear)
MainCpsr == [mode |-> MODE_SVC, I |-> 0, F |-> 0, T |-> 0]

\* the processor in main: the stacks are counted from where sched_run finds them;
\* lr and r0 are what run_task last popped into them, at_call is the history of
\* CPSR at the last call of run_task
MainCpu == [cpsr |-> MainCpsr, spsr_irq |-> MainCpsr, spsr_svc |-> MainCpsr,
            svc_stack |-> <<>>, usr_stack |-> <<>>, lr |-> NoWord, r0 |-> NoWord,
            at_call |-> MainCpsr]

\* the private timer with its event flag clear, after `count` expiries (a 32-bit
\* count, as the counter it is compared with); n and merged are history: the
\* expiries since the model's first state, and those that found the flag still set
StoppedTimer(count) == [flag |-> FALSE, expiries |-> count, n |-> 0, merged |-> 0]

---------------------------------------------------------------------------
(* The device drivers: the interrupt controller and the private timer *)

\* a 32-bit register is the set of its bit positions that hold 1; a block of
\* registers holds the registers that were written, any other reads as zero
READ32(block, reg) == IF reg \in DOMAIN block THEN block[reg] ELSE {}

\* #define WRITE32(_reg, _val) (*(volatile uint32_t*)&_reg = _val)
WRITE32(block, reg, val) ==
    [r \in DOMAIN block \cup {reg} |-> IF r = reg THEN val ELSE block[r]]

\* the members of the distributor's register structure, in order, with their
\* sizes in 32-bit words
gic_distributor_registers ==
    << [name |-> "DCTLR", words |-> 1],
       [name |-> "DTYPER", words |-> 1],
       [name |-> "DIIDR", words |-> 1],
       [name |-> "_reserved0", words |-> 29],
       [name |-> "DIGROUPR", words |-> 32],
       [name |-> "DISENABLER", words |-> 32],
       [name |-> "DICENABLER", words |-> 32],
       [name |-> "DISPENDR", words |-> 32],
       [name |-> "DICPENDR", words |-> 32],
       [name |-> "DICDABR", words |-> 32],
       [name |-> "_reserved1", words |-> 32],
       [name |-> "DIPRIORITY", words |-> 255],
       [name |-> "_reserved2", words |-> 1],
       [name |-> "DITARGETSRO", words |-> 8],
       [name |-> "DITARGETSR", words |-> 246],
       [name |-> "_reserved3", words |-> 1],
       [name |-> "DICFGR", words |-> 64] >>

RECURSIVE WordsBefore(_, _)
\* the number of words the structure holds before the member `name`
WordsBefore(layout, name) ==
    IF layout = <<>> \/ Head(layout).name = name
    THEN 0
    ELSE Head(layout).words + WordsBefore(Tail(layout), name)

\* &gic_dregs->member[index], as a byte offset from the distributor's base
RegOffset(member, index) == 4 * (WordsBefore(gic_distributor_registers, member) + index)

\* where the controller keeps the set-enable bits: offset 0x100, one bit per line
GICD_ISENABLER == 256

\* where the controller keeps the per-line CPU targets: offset 0x800, one byte per
\* line, the first eight registers (lines 0..31) read-only
GICD_ITARGETSR == 2048

\* the controller forwards requests of `line`
LineEnabled(dregs, line) ==
    (line % 32) \in READ32(dregs, GICD_ISENABLER + 4 * (line \div 32))

\* the CPU interfaces the controller forwards `line` to: the bits of the line's
\* byte of the target table
LineTargets(dregs, line) ==
    { b - 8 * (line % 4) :
        b \in READ32(dregs, GICD_ITARGETSR + 4 * (line \div 4))
                 \cap (8 * (line % 4) .. 8 * (line % 4) + 7) }

\* the enable bits of the two control registers
DCTRL_ENABLE == {0}

CCTRL_ENABLE == {0}

\* the registers of a controller that was not initialised
ResetDregs == [o \in {} |-> {}]

ResetIfregs == [CCPMR |-> {}, CCTLR |-> {}, CEOIR |-> <<>>]

\* gic_init, the writes to the CPU interface: all priorities pass, forwarding to
\* this CPU is on
gic_init_interface(ifregs) == [ifregs EXCEPT !.CCPMR = 0 .. 15, !.CCTLR = CCTRL_ENABLE]

\* gic_init, the last write: the distributor is on
gic_init_distributor(dregs) == WRITE32(dregs, RegOffset("DCTLR", 0), DCTRL_ENABLE)

\* uint8_t: the type of gic_enable_interrupt's parameter and of its locals
U8 == 2 ^ 8

\* gic_enable_interrupt with the enable register addressed like the target register
gic_enable_interrupt_confused(dregs, number) ==
    LET n    == number % U8
        reg  == (n \div 4) % U8
        bit  == (n % 32) % U8
        en   == RegOffset("DISENABLER", reg)
        d1   == WRITE32(dregs, en, READ32(dregs, en) \cup {bit})
        reg2 == (n \div 4) % U8
        bit2 == ((n % 4) * 8) % U8
        tg   == RegOffset("DITARGETSR", reg2)
    IN  WRITE32(d1, tg, READ32(d1, tg) \cup {bit2})

\* void gic_enable_interrupt(uint8_t number): set the line's enable bit, then
\* forward the line to CPU interface 0
gic_enable_interrupt(dregs, number) ==
    LET n    == number % U8
        reg  == (n \div 32) % U8
        bit  == (n % 32) % U8
        en   == RegOffset("DISENABLER", reg)
        d1   == WRITE32(dregs, en, READ32(dregs, en) \cup {bit})
        reg2 == (n \div 4) % U8
        bit2 == ((n % 4) * 8) % U8
        tg   == RegOffset("DITARGETSR", reg2)
    IN  WRITE32(d1, tg, READ32(d1, tg) \cup {bit2})

\* the result codes of ptimer_init
PTIMER_OK == "PTIMER_OK"

PTIMER_INVALID_PERIOD == "PTIMER_INVALID_PERIOD"

\* the peripheral clock, in ticks per millisecond (24 MHz)
REFCLOCK_KHZ == 24000

\* millisecs_to_timer_value: (period * refclock) - 1, times the slowdown factor
millisecs_to_timer_value(millisecs) == ((millisecs * REFCLOCK_KHZ) - 1) * 3

\* the timer's registers before ptimer_init: nothing loaded, stopped
ResetRegs == [LR |-> <<>>, CTRL |-> {}]

\* irq_register_isr(irq, isr)
irq_register_isr(table, irq, isr) ==
    [i \in DOMAIN table \cup {irq} |-> IF i = irq THEN isr ELSE table[i]]

\* ptimer_init: WRITE32(regs->LR, load_val)
ptimer_load(r, millisecs) == [r EXCEPT !.LR = <<millisecs_to_timer_value(millisecs)>>]

\* ptimer_init: WRITE32(regs->CTRL, CTRL_AUTORELOAD | CTRL_IRQ_ENABLE | CTRL_ENABLE)
ptimer_start(r) == [r EXCEPT !.CTRL = {"AUTORELOAD", "IRQ_ENABLE", "ENABLE"}]

\* ptimer_init without the early return
ptimer_init_unchecked(r, table, millisecs, valid) ==
    [regs |-> ptimer_start(ptimer_load(r, millisecs)),
     isr_table |-> irq_register_isr(table, PTIMER_INTERRUPT, "ptimer_isr"),
     ret |-> IF valid THEN PTIMER_OK ELSE PTIMER_INVALID_PERIOD]

\* ptimer_error ptimer_init(uint16_t millisecs); `valid` is what validate_config
\* answers for millisecs
ptimer_init(r, table, millisecs, valid) ==
    IF ~valid
    THEN [regs |-> r, isr_table |-> table, ret |-> PTIMER_INVALID_PERIOD]
    ELSE [regs |-> ptimer_start(ptimer_load(r, millisecs)),
          isr_table |-> irq_register_isr(table, PTIMER_INTERRUPT, "ptimer_isr"),
          ret |-> PTIMER_OK]

\* a driver call: its argument, what the driver's validation of the argument
\* answers (TRUE where it has none), and its result, "void" for none
DrvCall(op, arg, valid, ret) == [op |-> op, arg |-> arg, valid |-> valid, ret |-> ret]

\* the isrs registered before main starts the timer: the UART driver's
UartIsrs == irq_register_isr([i \in {} |-> "NULL"], UART0_INTERRUPT, "uart_isr")

\* the tick period main asks of the timer: ptimer_init(1u)
MAIN_TICK_MS == 1

\* the devices when main has initialised them: gic_init, the two lines enabled,
\* the timer started
InitHw ==
    /\ gic_dregs = gic_enable_interrupt(
                       gic_enable_interrupt(gic_init_distributor(ResetDregs),
                                            UART0_INTERRUPT),
                       PTIMER_INTERRUPT)
    /\ gic_ifregs = gic_init_interface(ResetIfregs)
    /\ regs = ptimer_init(ResetRegs, UartIsrs, MAIN_TICK_MS, TRUE).regs
    /\ isr_table = ptimer_init(ResetRegs, UartIsrs, MAIN_TICK_MS, TRUE).isr_table
    /\ drv_call = DrvCall("ptimer_init", MAIN_TICK_MS, TRUE, PTIMER_OK)

InitAux ==
    /\ coop_check = NoCheck
    /\ switch_log = <<>>
    /\ add_calls = <<>>
    /\ cpu = MainCpu
    /\ ptimer = StoppedTimer(u32(0))

InitSystime ==
    systime \in StartTimes /\ InitTime /\ InitSched /\ InitIrq /\ InitAux /\ InitHw

\* a caller schedules an event d ticks ahead, with the given period
ScheduleEvent ==
    /\ nsched < MaxEvents
    /\ \E d \in 0 .. MaxDelay, period \in 0 .. MaxPeriod :
         LET r == systime_schedule_event(callback_table, callback_table_mask,
                                         u32_add(systime, u32(d)), period, "cb", nsched)
         IN  /\ callback_table' = r.table
             /\ callback_table_mask' = r.mask
             /\ sched_ret' = r.ret
             /\ live' = IF r.slot >= 0 THEN live \cup {r.slot} ELSE live
             /\ last_invoked' = Without(last_invoked, {r.slot})
             /\ prev_invoked' = Without(prev_invoked, {r.slot})
    /\ nsched' = nsched + 1
    /\ UNCHANGED <<systime, nticks, invoked, due_before, waiting, deferrals>>
    /\ UNCHANGED <<schedvars, irqvars>>
    /\ UNCHANGED auxvars
    /\ UNCHANGED hwvars

\* systime_tick: systime++, then check_callbacks
SystimeTick ==
    /\ nticks < MaxTicks
    /\ LET now == u32_add(systime, u32(1))
           r == check_callbacks(callback_table, callback_table_mask, now)
       IN  /\ systime' = now
           /\ callback_table' = r.table
           /\ callback_table_mask' = r.mask
           /\ TickHistory(DueSet(callback_table, callback_table_mask, now), r.invoked,
                          nticks + 1)
    /\ UNCHANGED <<sched_ret, nsched>>
    /\ UNCHANGED <<schedvars, irqvars>>
    /\ UNCHANGED auxvars
    /\ UNCHANGED hwvars

NextSystime == ScheduleEvent \/ SystimeTick

SpecSystime == InitSystime /\ [][NextSystime]_vars

---------------------------------------------------------------------------
(* Claims about the time service *)

\* C5: after any sequence of schedule_event and tick calls, bit s of the occupancy
\* bitmask is set if and only if slot s holds a live event (scheduled and, if
\* one-shot, not yet fired).
C5_MaskAgreesWithLive ==
    \A s \in Slots : MaskBit(callback_table_mask, s) <=> s \in live

\* a one-shot event has fired and left its slot while another event is still live
C5_Witness ==
    \E s \in Slots : /\ callback_table[s].cb # "NULL"
                     /\ s \notin live
                     /\ live # {}
                     /\ nticks > 0

\* C7 (as claimed): a periodic event invoked at tick n is not invoked again before
\* period further ticks have elapsed, for every counter value, including when the
\* re-armed time now + period has wrapped past 2^32.
C7_PeriodicNotBeforePeriod ==
    \A s \in DOMAIN prev_invoked :
        callback_table[s].period # 0
            => last_invoked[s] - prev_invoked[s] >= callback_table[s].period

\* C8: each call of tick invokes at most one event callback, however many occupied
\* slots are due at that tick.
C8_AtMostOneCallbackPerTick == Len(invoked) <= 1

\* two or more slots were due at the last tick, and one callback was invoked
C8_Witness == Cardinality(due_before) >= 2 /\ Len(invoked) = 1

\* C9 (as claimed): when k >= 2 events are due at the same tick, all k have been
\* invoked within k consecutive ticks: an event that is due and was passed over at
\* tick g, with k events due at g, waits no longer than tick g + k - 1.
C9_DeferredServedWithinK ==
    \A s \in DOMAIN waiting : nticks - waiting[s].since <= waiting[s].k - 1

---------------------------------------------------------------------------
(* The interrupt handler of the timer-driven system *)

\* the identifiers the controller can deliver: the two lines main enables, and the
\* all-ones identifier of a spurious interrupt
IrqIds == {PTIMER_INTERRUPT, UART0_INTERRUPT, CIAR_ID_MASK}

\* the isr the registry holds for an identifier, NULL for none: the timer driver
\* registers ptimer_isr, the UART driver uart_isr
callback(irq) ==
    IF irq = PTIMER_INTERRUPT THEN "ptimer_isr"
    ELSE IF irq = UART0_INTERRUPT THEN "uart_isr"
    ELSE "NULL"

\* the handler of an early version of the chapter: gic_end_interrupt(37)
irq_handler_eoi_uart_only(irq) == UART0_INTERRUPT

\* the identifier irq_handler passes to gic_end_interrupt: the one it acknowledged
irq_handler_eoi(irq) == irq

\* the processor can write the mode and mask bits of CPSR in privileged modes only
Privileged(cpsr) == cpsr.mode # MODE_USR

\* msr cpsr_c, <val>: the control field holds I (bit 7), F (bit 6) and the mode
\* (bits 4..0); in user mode the write leaves them as they are.  The write never
\* changes the instruction-set state
msr_cpsr_c(cpsr, val) ==
    IF Privileged(cpsr)
    THEN [mode |-> val % 32, I |-> (val \div 128) % 2, F |-> (val \div 64) % 2,
          T |-> cpsr.T]
    ELSE cpsr

\* the processor takes an exception to `mode`: CPSR goes to the mode's SPSR, the
\* mode changes, IRQs are masked and the handler starts in ARM state
TakeException(cpsr, mode) == [mode |-> mode, I |-> 1, F |-> cpsr.F, T |-> 0]

\* the scheduler's state as a tick finds it
SchedState == [current_task |-> current_task,
               task_stack |-> task_stack,
               req_entered |-> req_entered,
               log |-> switch_log,
               now |-> systime]

\* the run loop holds a request it has not finished serving
Busy ==
    \/ main_pc \in {"call", "in_task", "returned"}
    \/ main_pc = "loop" /\ current_task # NULL_TASK

\* a task entered from the interrupt handler has not returned
InIrqTask == \E k \in DOMAIN task_stack : task_stack[k].ctx = "irq"

\* irq_handler, first statement: irq = gic_acknowledge_interrupt()
IrqAck ==
    /\ irq_pc = "idle"
    /\ cpu.cpsr.I = 0
    /\ cpu' = [cpu EXCEPT !.spsr_irq = cpu.cpsr, !.cpsr = TakeException(cpu.cpsr, MODE_IRQ)]
    /\ main_pc # "fault"
    /\ \E id \in IrqIds :
         /\ id = PTIMER_INTERRUPT => nticks < MaxSchedTicks
         /\ irq_id' = id
         /\ irq_trace' = <<[op |-> "ack", id |-> id]>>
    /\ irq_pc' = "acked"
    /\ UNCHANGED <<timevars, schedvars>>
    /\ UNCHANGED <<coop_check, switch_log, add_calls, ptimer>>
    /\ UNCHANGED hwvars

\* irq_handler: isr = callback(irq); if (isr != NULL) isr();
\* ptimer_isr clears the timer's interrupt flag and calls systime_tick
IrqReact ==
    /\ irq_pc = "acked"
    /\ irq_pc' = "reacted"
    /\ irq_trace' = IF callback(irq_id) # "NULL"
                    THEN Append(irq_trace, [op |-> callback(irq_id), id |-> irq_id])
                    ELSE irq_trace
    /\ IF callback(irq_id) = "ptimer_isr"
       THEN LET now == u32_add(systime, u32(1))
                r == check_callbacks(callback_table, callback_table_mask, now)
                st == run_callbacks(r.invoked, r.table, [SchedState EXCEPT !.now = now])
            IN  /\ systime' = now
                /\ callback_table' = r.table
                /\ callback_table_mask' = r.mask
                /\ TickHistory(DueSet(callback_table, callback_table_mask, now), r.invoked,
                               nticks + 1)
                /\ current_task' = st.current_task
                /\ task_stack' = st.task_stack
                /\ req_entered' = st.req_entered
                /\ switch_log' = st.log
                /\ overrun' = (overrun \/ (Busy /\ busy_ticks >= 1))
                /\ busy_ticks' = IF Busy THEN 1 ELSE 0
                /\ UNCHANGED <<sched_ret, nsched, task_table, table_idx, main_pc, loop_i, entries,
                               start_tick>>
       ELSE UNCHANGED <<timevars, schedvars, switch_log>>
    /\ UNCHANGED <<irq_id, coop_check, add_calls, cpu, ptimer>>
    /\ UNCHANGED hwvars

\* irq_handler, last statement: gic_end_interrupt(irq)
IrqEnd ==
    /\ irq_pc = "reacted"
    /\ ~InIrqTask
    /\ irq_pc' = "idle"
    /\ irq_trace' = Append(irq_trace, [op |-> "eoi", id |-> irq_handler_eoi(irq_id)])
    /\ cpu' = [cpu EXCEPT !.cpsr = cpu.spsr_irq]
    /\ UNCHANGED <<timevars, schedvars, irq_id>>
    /\ UNCHANGED <<coop_check, switch_log, add_calls, ptimer>>
    /\ UNCHANGED hwvars

---------------------------------------------------------------------------
(* The mainline of the timer-driven system: main, then sched_run *)

TaskEntry(i) == "task" \o ToString(i)

\* main: sched_add_task(&taskN, period)
AddTask ==
    /\ irq_pc = "idle"
    /\ main_pc = "main"
    /\ table_idx < MaxTasks
    /\ \E period \in 1 .. MaxTaskPeriod :
         LET r == sched_add_task(task_table, table_idx, TaskEntry(table_idx), period)
         IN  /\ task_table' = r.table
             /\ table_idx' = r.idx
             /\ add_calls' = Append(add_calls, r.ret)
    /\ UNCHANGED <<timevars, irqvars, current_task, main_pc, loop_i, task_stack,
                   req_entered, entries, overrun, start_tick,
                   busy_ticks>>
    /\ UNCHANGED <<coop_check, switch_log, cpu, ptimer>>
    /\ UNCHANGED hwvars

\* main calls sched_run
CallSchedRun ==
    /\ irq_pc = "idle"
    /\ main_pc = "main"
    /\ main_pc' = "register"
    /\ loop_i' = 0
    /\ UNCHANGED <<timevars, irqvars, task_table, table_idx, current_task, task_stack,
                   req_entered, entries, overrun, start_tick,
                   busy_ticks>>
    /\ UNCHANGED auxvars
    /\ UNCHANGED hwvars

\* sched_run, its for loop: the first index from i on whose entry is not NULL (the
\* iterations that only `continue` touch nothing an interrupt reads or writes)
RECURSIVE next_task(_)
next_task(i) ==
    IF i >= MAX_NUM_TASKS THEN MAX_NUM_TASKS
    ELSE IF task_table[i].entry # "NULL" THEN i
    ELSE next_task(i + 1)

\* sched_run, the next iteration of its for loop that does not `continue`: the task
\* gets a repeating event at last_run + period
RegisterTask ==
    /\ irq_pc = "idle"
    /\ main_pc = "register"
    /\ next_task(loop_i) < MAX_NUM_TASKS
    /\ LET i == next_task(loop_i)
           task == task_table[i]
           next_run == u32_add(task.last_run, u32(task.period))
           r == systime_schedule_event(callback_table, callback_table_mask, next_run,
                                       task.period, "task_switch_callback", i)
       IN  /\ callback_table' = r.table
           /\ callback_table_mask' = r.mask
           /\ sched_ret' = r.ret
           /\ live' = IF r.slot >= 0 THEN live \cup {r.slot} ELSE live
           /\ loop_i' = i + 1
    /\ UNCHANGED <<systime, nticks, nsched, invoked, due_before, last_invoked, prev_invoked,
                   waiting, deferrals>>
    /\ UNCHANGED <<irqvars, task_table, table_idx, current_task, main_pc, task_stack,
                   req_entered, entries, overrun, start_tick,
                   busy_ticks>>
    /\ UNCHANGED auxvars
    /\ UNCHANGED hwvars

\* sched_run: current_task = &task_table[0], always the first task of the table
StartFirstTask ==
    /\ irq_pc = "idle"
    /\ main_pc = "register"
    /\ next_task(loop_i) >= MAX_NUM_TASKS
    /\ current_task' = 0
    /\ req_entered' = FALSE
    /\ main_pc' = "loop"
    /\ start_tick' = nticks
    /\ UNCHANGED <<timevars, irqvars, task_table, table_idx, loop_i, task_stack, entries,
                   overrun, busy_ticks>>
    /\ UNCHANGED auxvars
    /\ UNCHANGED hwvars

\* sched_run, the run loop: if (current_task)
LoopCheck ==
    /\ irq_pc = "idle"
    /\ main_pc = "loop"
    /\ current_task # NULL_TASK
    /\ main_pc' = "call"
    /\ UNCHANGED <<timevars, irqvars, task_table, table_idx, current_task, loop_i, task_stack,
                   req_entered, entries, overrun, start_tick,
                   busy_ticks>>
    /\ UNCHANGED auxvars
    /\ UNCHANGED hwvars

\* sched_run: activate_task(current_task->entry), up to the call of the entry:
\* mov r4, 0x1F; msr cpsr_c, r4; fn()
EnterTask ==
    /\ irq_pc = "idle"
    /\ main_pc = "call"
    /\ cpu' = [cpu EXCEPT !.cpsr = msr_cpsr_c(@, MODE_SYS)]
    /\ IF task_table[current_task].entry = "NULL"
       THEN /\ main_pc' = "fault"
            /\ UNCHANGED <<task_stack, req_entered, entries>>
       ELSE /\ main_pc' = "in_task"
            /\ task_stack' = Append(task_stack,
                                    [id |-> current_task, ctx |-> "mainline"])
            /\ req_entered' = TRUE
            /\ entries' = [t \in (DOMAIN entries) \cup {current_task} |->
                              IF t = current_task
                              THEN (IF t \in DOMAIN entries THEN entries[t] ELSE 0) + 1
                              ELSE entries[t]]
    /\ UNCHANGED <<timevars, irqvars, task_table, table_idx, current_task, loop_i, overrun,
                   start_tick, busy_ticks>>
    /\ UNCHANGED <<coop_check, switch_log, add_calls, ptimer>>
    /\ UNCHANGED hwvars

\* the entry returns into activate_task: mov r4, 0x13; msr cpsr_c, r4, and
\* activate_task returns into sched_run
TaskEnd ==
    /\ irq_pc = "idle"
    /\ main_pc = "in_task"
    /\ task_stack # <<>>
    /\ cpu' = [cpu EXCEPT !.cpsr = msr_cpsr_c(@, MODE_SVC)]
    /\ task_stack' = SubSeq(task_stack, 1, Len(task_stack) - 1)
    /\ main_pc' = "returned"
    /\ UNCHANGED <<timevars, irqvars, task_table, table_idx, current_task, loop_i,
                   req_entered, entries, overrun, start_tick,
                   busy_ticks>>
    /\ UNCHANGED <<coop_check, switch_log, add_calls, ptimer>>
    /\ UNCHANGED hwvars

\* sched_run: current_task = NULL after run_task returned
ClearCurrent ==
    /\ irq_pc = "idle"
    /\ main_pc = "returned"
    /\ current_task' = NULL_TASK
    /\ main_pc' = "loop"
    /\ busy_ticks' = 0
    /\ UNCHANGED <<timevars, irqvars, task_table, table_idx, loop_i, task_stack,
                   req_entered, entries, overrun, start_tick>>
    /\ UNCHANGED auxvars
    /\ UNCHANGED hwvars

\* at boot: static systime_t systime is zero
Init == systime = u32(0) /\ InitTime /\ InitSched /\ InitIrq /\ InitAux /\ InitHw

Next ==
    \/ IrqAck
    \/ IrqReact
    \/ IrqEnd
    \/ AddTask
    \/ CallSchedRun
    \/ RegisterTask
    \/ StartFirstTask
    \/ LoopCheck
    \/ EnterTask
    \/ TaskEnd
    \/ ClearCurrent

Spec == Init /\ [][Next]_vars

---------------------------------------------------------------------------
(* Claims about the timer-driven system *)

C2_AckReactionEoiInOrder ==
    LET ack == <<[op |-> "ack", id |-> irq_id]>>
        reaction == IF callback(irq_id) # "NULL"
                    THEN <<[op |-> callback(irq_id), id |-> irq_id]>>
                    ELSE <<>>
        eoi == <<[op |-> "eoi", id |-> irq_id]>>
    IN  /\ irq_pc = "acked" => irq_trace = ack
        /\ irq_pc = "reacted" => irq_trace = ack \o reaction
        /\ irq_pc = "idle" => (irq_trace = <<>> \/ irq_trace = ack \o reaction \o eoi)

\* the handler has completed for an identifier that has no registered reaction
C2_Witness ==
    /\ irq_pc = "idle"
    /\ irq_trace = <<[op |-> "ack", id |-> CIAR_ID_MASK], [op |-> "eoi", id |-> CIAR_ID_MASK]>>

\* the handler has completed for the timer line, after its reaction
C2_WitnessTimer ==
    /\ irq_pc = "idle"
    /\ Len(irq_trace) = 3
    /\ irq_trace[2] = [op |-> "ptimer_isr", id |-> PTIMER_INTERRUPT]

\* C3 (as claimed): no request is lost: the run loop clears the reference only
\* after it has performed the transition into the task the reference designates.
C3_NoRequestLost ==
    [][(current_task # NULL_TASK /\ current_task' = NULL_TASK) => req_entered]_vars

\* C4: at most one task is executing at any instant: the run loop never enters a
\* task while another task that was entered has not yet trapped back.
C4_AtMostOneTaskExecuting == Len(task_stack) <= 1

\* a task is executing while the reference already designates another task
C4_Witness ==
    /\ Len(task_stack) = 1
    /\ current_task # NULL_TASK
    /\ current_task # task_stack[1].id

Count(f, x) == IF x \in DOMAIN f THEN f[x] ELSE 0

\* the slot that holds the event sched_run registered for task i
SlotOfTask(i) ==
    CHOOSE s \in Slots :
        /\ MaskBit(callback_table_mask, s)
        /\ callback_table[s].cb = "task_switch_callback"
        /\ callback_table[s].arg = i

\* C10 (as claimed): run for T ticks, each task i fires (is entered) at least
\* floor(T / Pi) times, net of one tick per tick at which its due event was passed
\* over in a same-tick collision. Stated where nothing is outstanding (the run loop
\* is idle and holds no request), for tasks whose every run lasted at most one tick
\* and whose periods are at least two ticks.
C10_EachTaskFiresPerPeriod ==
    (/\ main_pc = "loop"
     /\ irq_pc = "idle"
     /\ current_task = NULL_TASK
     /\ ~overrun
     /\ \A i \in 0 .. (table_idx - 1) : task_table[i].period >= 2)
    => \A i \in 0 .. (table_idx - 1) :
          Count(entries, i) >=
              ((nticks - start_tick) - Count(deferrals, SlotOfTask(i))) \div task_table[i].period

---------------------------------------------------------------------------
(* The cooperative scheduler: sched_run polls the table, ticks come from the timer *)

\* sched_add_task of the cooperative scheduler: the descriptor has no id
coop_sched_add_task(table, idx, entry, period) ==
    IF idx >= MAX_NUM_TASKS
    THEN [ret |-> SCHED_TOO_MANY_TASKS, table |-> table, idx |-> idx]
    ELSE [ret |-> SCHED_OK,
          table |-> [table EXCEPT ![idx] =
                        [id |-> 0, entry |-> entry, period |-> period, last_run |-> u32(0)]],
          idx |-> idx + 1]

\* the due test as a wrap-safe comparison would make it: elapsed time against period
Due_elapsed(last_run, period, now) == u32_ge(u32_sub(now, last_run), u32(period))

\* sched_run's due test: task->last_run + task->period <= systime_get(), in
\* 32-bit unsigned arithmetic
Due(last_run, period, now) == u32_le(u32_add(last_run, u32(period)), now)

\* the table after main has added tasks with the given periods, in order
RECURSIVE coop_main(_, _, _)
coop_main(periods, table, idx) ==
    IF periods = <<>>
    THEN [table |-> table, idx |-> idx]
    ELSE LET r == coop_sched_add_task(table, idx, TaskEntry(idx), Head(periods))
         IN  coop_main(Tail(periods), r.table, r.idx)

CoopPeriods == {ShortPeriod, LongPeriod}

\* the counter when sched_run starts a scan: at boot, or CoopNearWrap ticks before
\* the counter wraps
CoopStartTimes == {u32(0), u32_sub(u32(0), u32(CoopNearWrap))}

\* sched_run is about to test the first task; at boot no task has run (last_run is
\* 0), later every task has last run at some earlier tick: here, the current one
InitCoop ==
    /\ systime \in CoopStartTimes
    /\ InitTime
    /\ InitIrq
    /\ \E n \in 1 .. MaxCoopTasks : \E periods \in [1 .. n -> CoopPeriods] :
          LET r == coop_main(periods, [i \in TaskIds |-> EmptyTask], 0)
          IN  /\ task_table = [i \in TaskIds |->
                                  IF i < r.idx THEN [r.table[i] EXCEPT !.last_run = systime]
                                  ELSE r.table[i]]
              /\ table_idx = r.idx
    /\ current_task = NULL_TASK
    /\ main_pc = "test"
    /\ loop_i = 0
    /\ task_stack = <<>>
    /\ req_entered = FALSE
    /\ entries = <<>>
    /\ overrun = FALSE
    /\ start_tick = 0
    /\ busy_ticks = 0
    /\ InitAux /\ InitHw

\* the next index at or after i, cyclically, whose entry is not NULL: the for loop
\* inside while (1)
coop_next(i) ==
    IF next_task(i) < MAX_NUM_TASKS THEN next_task(i) ELSE next_task(0)

\* the timer interrupt: ptimer_isr calls systime_tick, systime++
CoopTick ==
    /\ nticks < MaxCoopTicks
    /\ systime' = u32_add(systime, u32(1))
    /\ nticks' = nticks + 1
    /\ UNCHANGED <<callback_table, callback_table_mask, sched_ret, nsched, invoked, due_before,
                   live, last_invoked, prev_invoked, waiting, deferrals>>
    /\ UNCHANGED <<schedvars, irqvars, auxvars>>
    /\ UNCHANGED hwvars

\* sched_run: if (task->last_run + task->period <= systime_get())
CoopTest ==
    /\ main_pc = "test"
    /\ LET i == coop_next(loop_i)
           task == task_table[i]
           due == Due(task.last_run, task.period, systime)
       IN  /\ coop_check' = [last_run |-> task.last_run, period |-> task.period,
                             now |-> systime, invoked |-> due]
           /\ loop_i' = IF due THEN i ELSE i + 1
           /\ main_pc' = IF due THEN "stamp" ELSE "test"
    /\ UNCHANGED <<timevars, irqvars, task_table, table_idx, current_task, task_stack,
                   req_entered, entries, overrun, start_tick, busy_ticks>>
    /\ UNCHANGED <<switch_log, add_calls, cpu, ptimer>>
    /\ UNCHANGED hwvars

\* sched_run: task->last_run = systime_get(); task->entry();
CoopEnter ==
    /\ main_pc = "stamp"
    /\ task_table' = [task_table EXCEPT ![loop_i].last_run = systime]
    /\ task_stack' = Append(task_stack, [id |-> loop_i, ctx |-> "mainline"])
    /\ main_pc' = "in_task"
    /\ UNCHANGED <<timevars, irqvars, table_idx, current_task, loop_i, req_entered, entries,
                   overrun, start_tick, busy_ticks, auxvars>>
    /\ UNCHANGED hwvars

\* the entry returns; the for loop goes on with the next task
CoopReturn ==
    /\ main_pc = "in_task"
    /\ task_stack' = SubSeq(task_stack, 1, Len(task_stack) - 1)
    /\ loop_i' = loop_i + 1
    /\ main_pc' = "test"
    /\ UNCHANGED <<timevars, irqvars, task_table, table_idx, current_task, req_entered,
                   entries, overrun, start_tick, busy_ticks, auxvars>>
    /\ UNCHANGED hwvars

NextCoop == CoopTick \/ CoopTest \/ CoopEnter \/ CoopReturn

SpecCoop == InitCoop /\ [][NextCoop]_vars

---------------------------------------------------------------------------
(* Claims about the cooperative scheduler *)

\* C6 (as claimed): the due test is wrap-safe: for every last_run, period and now,
\* sched_run invokes the task if and only if (now - last_run) mod 2^32 >= period; a
\* task with last_run = 2^32 - 11 and period 100 is not invoked at now = 2^32 - 9.
C6_DueCheckWrapSafe ==
    coop_check.invoked <=> Due_elapsed(coop_check.last_run, coop_check.period, coop_check.now)

---------------------------------------------------------------------------
(* The walkthrough of the chapter: main adds task0 (5000 ticks) and task1 (2000  *)
(* ticks); each entry busy-waits for 1000 ticks.  A tick is a millisecond, the   *)
(* statements of main and of the run loop between two waits take far less, so   *)
(* the timer interrupts the mainline only where it waits: in the idle run loop   *)
(* and in the busy-wait of a task.                                               *)

LogTicks == 10001

\* sched_add_task(&task0, 5000u)
TASK0_PERIOD == 5000

\* sched_add_task(&task1, 2000u)
TASK1_PERIOD == 2000

\* while (start + 1000u > systime_get())
TASK_WORK == 1000

\* the sched_add_task calls of main, in order
MainTasks == <<[entry |-> TaskEntry(0), period |-> TASK0_PERIOD],
               [entry |-> TaskEntry(1), period |-> TASK1_PERIOD]>>

\* the condition of the entry's busy-wait: start + 1000u > systime_get()
WorkLeft ==
    /\ task_stack # <<>>
    /\ u32_gt(u32_add(task_stack[Len(task_stack)].start, u32(TASK_WORK)), systime)

\* the mainline waits: the run loop finds no current task, or an entry busy-waits
MainlineWaiting ==
    \/ main_pc = "loop" /\ current_task = NULL_TASK
    \/ main_pc = "in_task" /\ WorkLeft

\* main: the next sched_add_task call
LogAddTask ==
    /\ irq_pc = "idle"
    /\ main_pc = "main"
    /\ Len(add_calls) < Len(MainTasks)
    /\ LET t == MainTasks[Len(add_calls) + 1]
           r == sched_add_task(task_table, table_idx, t.entry, t.period)
       IN  /\ task_table' = r.table
           /\ table_idx' = r.idx
           /\ add_calls' = Append(add_calls, r.ret)
    /\ UNCHANGED <<timevars, irqvars, current_task, main_pc, loop_i, task_stack,
                   req_entered, entries, overrun, start_tick, busy_ticks>>
    /\ UNCHANGED <<coop_check, switch_log, cpu, ptimer>>
    /\ UNCHANGED hwvars

\* main calls sched_run after its last sched_add_task
LogCallSchedRun ==
    /\ Len(add_calls) = Len(MainTasks)
    /\ CallSchedRun

\* the private timer expires while the mainline waits, and irq_handler acknowledges
\* the timer's interrupt
LogIrqAck ==
    /\ irq_pc = "idle"
    /\ cpu.cpsr.I = 0
    /\ MainlineWaiting
    /\ nticks < LogTicks
    /\ cpu' = [cpu EXCEPT !.spsr_irq = cpu.cpsr, !.cpsr = TakeException(cpu.cpsr, MODE_IRQ)]
    /\ irq_id' = PTIMER_INTERRUPT
    /\ irq_trace' = <<[op |-> "ack", id |-> PTIMER_INTERRUPT]>>
    /\ irq_pc' = "acked"
    /\ UNCHANGED <<timevars, schedvars>>
    /\ UNCHANGED <<coop_check, switch_log, add_calls, ptimer>>
    /\ UNCHANGED hwvars

\* sched_run: activate_task(current_task->entry), up to the first statement of the
\* entry: systime_t start = systime_get()
LogEnterTask ==
    /\ irq_pc = "idle"
    /\ main_pc = "call"
    /\ cpu' = [cpu EXCEPT !.cpsr = msr_cpsr_c(@, MODE_SYS)]
    /\ IF task_table[current_task].entry = "NULL"
       THEN /\ main_pc' = "fault"
            /\ UNCHANGED <<task_stack, req_entered>>
       ELSE /\ main_pc' = "in_task"
            /\ task_stack' = Append(task_stack,
                                    [id |-> current_task, ctx |-> "mainline",
                                     start |-> systime])
            /\ req_entered' = TRUE
    /\ UNCHANGED <<timevars, irqvars, task_table, table_idx, current_task, loop_i, entries,
                   overrun, start_tick, busy_ticks>>
    /\ UNCHANGED <<coop_check, switch_log, add_calls, ptimer>>
    /\ UNCHANGED hwvars

\* the busy-wait of the entry ends, the entry returns into activate_task
LogTaskEnd ==
    /\ ~WorkLeft
    /\ TaskEnd

NextLog ==
    \/ LogAddTask
    \/ LogCallSchedRun
    \/ RegisterTask
    \/ StartFirstTask
    \/ LoopCheck
    \/ LogEnterTask
    \/ LogTaskEnd
    \/ ClearCurrent
    \/ LogIrqAck
    \/ IrqReact
    \/ IrqEnd

SpecLog == Init /\ [][NextLog]_vars

\* the log as far as the claim reads it: the time and the task switched to
LogTargets ==
    [k \in 1 .. Len(switch_log) |-> [time |-> switch_log[k].time, to |-> switch_log[k].to]]

IsPrefix(s, t) == Len(s) <= Len(t) /\ \A k \in 1 .. Len(s) : s[k] = t[k]

\* the log of the chapter's first version of the callback, as far as the claim
\* quotes it ("Time 2000; 0 --> 1" ... "Time 10001; 0 --> 1")
ClaimedLog ==
    <<[time |-> u32(2000), to |-> 1], [time |-> u32(5000), to |-> 0],
      [time |-> u32(6000), to |-> 1], [time |-> u32(10000), to |-> 0],
      [time |-> u32(10001), to |-> 1]>>

\* the output the chapter shows for the final sched_run ("Time 2000; (idle) --> 1",
\* "Time 4000; (idle) --> 1", "Time 5000; 1 --> 0" ...), up to tick 10001
DocumentedLog ==
    <<[time |-> u32(2000), to |-> 1], [time |-> u32(4000), to |-> 1],
      [time |-> u32(5000), to |-> 0], [time |-> u32(6000), to |-> 1],
      [time |-> u32(8000), to |-> 1], [time |-> u32(10000), to |-> 0],
      [time |-> u32(10001), to |-> 1]>>

\* C11 (as claimed): with task A (period 5000, added first) and task B (period
\* 2000), each working for 1000 ticks, the transition log is, in order: B at 2000,
\* A at 5000, B at 6000, A at 10000 and B at 10001.
C11_LogAsClaimed ==
    /\ IsPrefix(LogTargets, ClaimedLog)
    /\ nticks >= LogTicks => LogTargets = ClaimedLog

\* C11 (amended): the run loop clears the current task when an entry returns, so
\* the events of B at 4000 and 8000 find the system idle and are logged too: the
\* log is B at 2000, B at 4000, A at 5000, B at 6000, B at 8000, A at 10000 and
\* B at 10001; the collision at 10000 goes to A and B is deferred by one tick.
C11_LogWithIdleSwitches ==
    /\ IsPrefix(LogTargets, DocumentedLog)
    /\ nticks >= LogTicks => LogTargets = DocumentedLog

\* the walkthrough has run past the collision: seven transitions are logged
C11_Witness == nticks >= LogTicks /\ Len(switch_log) = Len(DocumentedLog)

---------------------------------------------------------------------------
(* The time service with its table filled: sixteen events are scheduled, some of *)
(* them one-shot and due at the first ticks, then schedule_event and tick in any  *)
(* order                                                                          *)

MaxSlotCalls == 2
FarPeriod == 1000

\* the slots whose first event is a one-shot due at tick 1: the first and the last
SlotsOneShots == SUBSET {0, MAX_NUM_CALLBACKS - 1}

\* the table after n calls of systime_schedule_event from the empty table: call i
\* is a one-shot due at tick 1 if i is in `oneshots`, else a periodic event far ahead
RECURSIVE Prefill(_, _)
Prefill(n, oneshots) ==
    IF n = 0
    THEN [table |-> [s \in Slots |-> EmptyEntry], mask |-> 0]
    ELSE LET t == Prefill(n - 1, oneshots)
             i == n - 1
         IN  IF i \in oneshots
             THEN systime_schedule_event(t.table, t.mask, u32(1), 0, "cb", i)
             ELSE systime_schedule_event(t.table, t.mask, u32(FarPeriod), FarPeriod, "cb", i)

InitSlots ==
    /\ systime = u32(0)
    /\ \E oneshots \in SlotsOneShots :
         LET t == Prefill(MAX_NUM_CALLBACKS, oneshots)
         IN  /\ callback_table = t.table
             /\ callback_table_mask = t.mask
    /\ sched_ret = SYSTIME_CALLBACK_OK
    /\ nticks = 0
    /\ nsched = MAX_NUM_CALLBACKS
    /\ invoked = <<>>
    /\ due_before = {}
    /\ live = Slots
    /\ last_invoked = <<>>
    /\ prev_invoked = <<>>
    /\ waiting = <<>>
    /\ deferrals = <<>>
    /\ InitSched /\ InitIrq /\ InitAux /\ InitHw

\* a caller schedules one more event d ticks ahead, with the given period
SlotsScheduleEvent ==
    /\ nsched < MAX_NUM_CALLBACKS + MaxSlotCalls
    /\ \E d \in 0 .. MaxDelay, period \in 0 .. MaxPeriod :
         LET r == systime_schedule_event(callback_table, callback_table_mask,
                                         u32_add(systime, u32(d)), period, "cb", nsched)
         IN  /\ callback_table' = r.table
             /\ callback_table_mask' = r.mask
             /\ sched_ret' = r.ret
             /\ live' = IF r.slot >= 0 THEN live \cup {r.slot} ELSE live
             /\ last_invoked' = Without(last_invoked, {r.slot})
             /\ prev_invoked' = Without(prev_invoked, {r.slot})
    /\ nsched' = nsched + 1
    /\ UNCHANGED <<systime, nticks, invoked, due_before, waiting, deferrals>>
    /\ UNCHANGED <<schedvars, irqvars>>
    /\ UNCHANGED auxvars
    /\ UNCHANGED hwvars

NextSlots == SlotsScheduleEvent \/ SystimeTick

SpecSlots == InitSlots /\ [][NextSlots]_vars

\* every bit of callback_table_mask is set
TableFull == \A s \in Slots : MaskBit(callback_table_mask, s)

\* C12: schedule_event returns the table-full result exactly when all 16 slots are
\* occupied, and then leaves every slot and the occupancy bitmask unchanged;
\* whenever a slot is free it stores the event in a free slot, marks only that
\* slot occupied and returns success.
C12_TableFullExactlyWhenNoFreeSlot ==
    [][nsched' # nsched =>
         IF TableFull
         THEN /\ sched_ret' = SYSTIME_NO_CALLBACK_SLOTS
              /\ callback_table' = callback_table
              /\ callback_table_mask' = callback_table_mask
         ELSE /\ sched_ret' = SYSTIME_CALLBACK_OK
              /\ \E s \in Slots :
                   /\ ~MaskBit(callback_table_mask, s)
                   /\ callback_table_mask' = MaskSet(callback_table_mask, s)
                   /\ callback_table'[s].arg = nsched
                   /\ \A t \in Slots \ {s} : callback_table'[t] = callback_table[t]]_vars

\* a call found all sixteen slots occupied and returned the table-full result,
\* after an earlier call had taken the slot a one-shot left
C12_Witness ==
    /\ sched_ret = SYSTIME_NO_CALLBACK_SLOTS
    /\ TableFull
    /\ \E s \in Slots : callback_table[s].arg >= MAX_NUM_CALLBACKS

---------------------------------------------------------------------------
(* The task table on its own: a program that keeps calling sched_add_task, built *)
(* with the timer-driven scheduler (09_context_switch) or with the cooperative   *)
(* one (08_scheduler)                                                             *)

MaxAddCalls == 12

\* the program is built with one of the two schedulers
InitTasks ==
    /\ systime = u32(0)
    /\ InitTime
    /\ task_table = [i \in TaskIds |-> EmptyTask]
    /\ table_idx = 0
    /\ current_task = NULL_TASK
    /\ main_pc \in {"main", "coop_main"}
    /\ loop_i = 0
    /\ task_stack = <<>>
    /\ req_entered = FALSE
    /\ entries = <<>>
    /\ overrun = FALSE
    /\ start_tick = 0
    /\ busy_ticks = 0
    /\ InitIrq
    /\ InitAux /\ InitHw

\* sched_add_task of sched_preemptive.c is called once more
TasksAddTask ==
    /\ main_pc = "main"
    /\ Len(add_calls) < MaxAddCalls
    /\ \E period \in 1 .. MaxTaskPeriod :
         LET r == sched_add_task(task_table, table_idx, TaskEntry(Len(add_calls)), period)
         IN  /\ task_table' = r.table
             /\ table_idx' = r.idx
             /\ add_calls' = Append(add_calls, r.ret)
    /\ UNCHANGED <<timevars, irqvars, current_task, main_pc, loop_i, task_stack,
                   req_entered, entries, overrun, start_tick, busy_ticks>>
    /\ UNCHANGED <<coop_check, switch_log, cpu, ptimer>>
    /\ UNCHANGED hwvars

\* sched_add_task of 08_scheduler/src/sched.c is called once more
TasksCoopAddTask ==
    /\ main_pc = "coop_main"
    /\ Len(add_calls) < MaxAddCalls
    /\ \E period \in 1 .. MaxTaskPeriod :
         LET r == coop_sched_add_task(task_table, table_idx, TaskEntry(Len(add_calls)),
                                      period)
         IN  /\ task_table' = r.table
             /\ table_idx' = r.idx
             /\ add_calls' = Append(add_calls, r.ret)
    /\ UNCHANGED <<timevars, irqvars, current_task, main_pc, loop_i, task_stack,
                   req_entered, entries, overrun, start_tick, busy_ticks>>
    /\ UNCHANGED <<coop_check, switch_log, cpu, ptimer>>
    /\ UNCHANGED hwvars

NextTasks == TasksAddTask \/ TasksCoopAddTask

SpecTasks == InitTasks /\ [][NextTasks]_vars

\* C13: on a task table of capacity N = MAX_NUM_TASKS = 10 the first N add_task
\* calls succeed and store the task; the (N+1)-th and every later call returns the
\* capacity error and leaves the task table and the task count unchanged.
C13_CapacityErrorAfterN ==
    [][Len(add_calls') > Len(add_calls) =>
         IF Len(add_calls) < MAX_NUM_TASKS
         THEN /\ add_calls'[Len(add_calls')] = SCHED_OK
              /\ table_idx' = Len(add_calls) + 1
              /\ task_table'[Len(add_calls)].entry = TaskEntry(Len(add_calls))
              /\ \A i \in TaskIds \ {Len(add_calls)} : task_table'[i] = task_table[i]
         ELSE /\ add_calls'[Len(add_calls')] = SCHED_TOO_MANY_TASKS
              /\ task_table' = task_table
              /\ table_idx' = table_idx]_vars

\* the eleventh and the twelfth call have returned the capacity error
C13_Witness ==
    /\ Len(add_calls) >= MAX_NUM_TASKS + 2
    /\ add_calls[MAX_NUM_TASKS + 1] = SCHED_TOO_MANY_TASKS
    /\ add_calls[MAX_NUM_TASKS + 2] = SCHED_TOO_MANY_TASKS
    /\ table_idx = MAX_NUM_TASKS

---------------------------------------------------------------------------
(* The timer-driven system built with run_task (the scheduler of systime.c:71-208) *)
(* and the supervisor-call handler of startup.s: tasks are entered in user mode  *)
(* and end with svc 0                                                             *)

\* bic r1, r1, 0x3 on a CPSR value: bits 1..0 are the low bits of the mode field
bic_0x3(cpsr) == [cpsr EXCEPT !.mode = @ - (@ % 4)]

\* msr cpsr, <register>: as msr cpsr_c for the mode and mask bits
msr_cpsr(cpsr, word) ==
    IF Privileged(cpsr) /\ word.kind = "cpsr" THEN word.cpsr ELSE cpsr

\* an entry routine that writes 0x90 to the control field: user mode, IRQs masked
run_task_enter_masked(cpsr) == msr_cpsr_c(cpsr, 144)

\* run_task: bic r1, r1, 0x3; msr cpsr, r1
run_task_enter(cpsr) == msr_cpsr(cpsr, CpsrWord(bic_0x3(cpsr)))

\* the stack the processor uses in a mode: sp is banked, user and system mode
\* share one
StackOf(c) == IF c.cpsr.mode = MODE_SVC THEN c.svc_stack ELSE c.usr_stack

WithStack(c, stack) ==
    IF c.cpsr.mode = MODE_SVC THEN [c EXCEPT !.svc_stack = stack]
    ELSE [c EXCEPT !.usr_stack = stack]

\* the return address of run_task: the statement of sched_run after the call
RetSchedRun == AddrWord("sched_run")

\* run_task, up to the call of the entry: mrs r1, cpsr; push {r1, lr};
\* bic r1, r1, 0x3; msr cpsr, r1 (the lowest address, r1, is the top of the stack)
run_task_prologue(c) ==
    LET pushed == WithStack(c, StackOf(c) \o <<RetSchedRun, CpsrWord(c.cpsr)>>)
    IN  [pushed EXCEPT !.cpsr = run_task_enter(c.cpsr),
                       !.at_call = c.cpsr,
                       !.r0 = NoWord,
                       !.lr = NoWord]

\* SVC_Handler_Top: push {r0-r12, lr}; mrs r0, spsr; push {r0}; (the call of the C
\* handler is commented out); pop {r0}; msr spsr_cxsf, r0; ldmfd sp!, {r0-r12, pc}^
SVC_Handler_Top(c) ==
    LET frame == [i \in 1 .. 14 |-> IF i = 1 THEN AddrWord("after_svc") ELSE AddrWord("reg")]
        stack1 == c.svc_stack \o frame \o <<CpsrWord(c.spsr_svc)>>
        spsr == stack1[Len(stack1)].cpsr
        stack2 == SubSeq(stack1, 1, Len(stack1) - 1)
        pc == stack2[Len(stack2) - 13].addr
        stack3 == SubSeq(stack2, 1, Len(stack2) - 14)
    IN  [cpu |-> [c EXCEPT !.svc_stack = stack3, !.spsr_svc = spsr, !.cpsr = spsr],
         pc |-> pc]

\* run_task after the trap: pop {r0, lr}; msr cpsr, r0.  The pop reads the stack
\* of the current mode; where that stack holds nothing run_task pushed, it reads
\* whatever lies beyond it
run_task_epilogue(c) ==
    LET stack == StackOf(c)
    IN  IF Len(stack) >= 2
        THEN LET r0 == stack[Len(stack)]
                 popped == WithStack(c, SubSeq(stack, 1, Len(stack) - 2))
             IN  [popped EXCEPT !.r0 = r0,
                                !.lr = stack[Len(stack) - 1],
                                !.cpsr = msr_cpsr(c.cpsr, r0)]
        ELSE [c EXCEPT !.r0 = Garbage, !.lr = Garbage]

\* sched_run: run_task(current_task->entry), up to the call of the entry
PrivEnter ==
    /\ irq_pc = "idle"
    /\ main_pc = "call"
    /\ cpu' = run_task_prologue(cpu)
    /\ IF task_table[current_task].entry = "NULL"
       THEN /\ main_pc' = "fault"
            /\ UNCHANGED <<task_stack, req_entered, entries>>
       ELSE /\ main_pc' = "in_task"
            /\ task_stack' = Append(task_stack,
                                    [id |-> current_task, ctx |-> "mainline"])
            /\ req_entered' = TRUE
            /\ entries' = [t \in (DOMAIN entries) \cup {current_task} |->
                              IF t = current_task
                              THEN (IF t \in DOMAIN entries THEN entries[t] ELSE 0) + 1
                              ELSE entries[t]]
    /\ UNCHANGED <<timevars, irqvars, task_table, table_idx, current_task, loop_i, overrun,
                   start_tick, busy_ticks>>
    /\ UNCHANGED <<coop_check, switch_log, add_calls, ptimer>>
    /\ UNCHANGED hwvars

\* the entry returns into run_task, which is about to execute svc 0
PrivEntryReturns ==
    /\ irq_pc = "idle"
    /\ main_pc = "in_task"
    /\ task_stack # <<>>
    /\ task_stack' = SubSeq(task_stack, 1, Len(task_stack) - 1)
    /\ main_pc' = "trap"
    /\ UNCHANGED <<timevars, irqvars, task_table, table_idx, current_task, loop_i,
                   req_entered, entries, overrun, start_tick, busy_ticks>>
    /\ UNCHANGED auxvars
    /\ UNCHANGED hwvars

\* svc 0: the processor takes the supervisor-call exception
PrivSvc ==
    /\ irq_pc = "idle"
    /\ main_pc = "trap"
    /\ cpu' = [cpu EXCEPT !.spsr_svc = cpu.cpsr,
                          !.cpsr = TakeException(cpu.cpsr, MODE_SVC)]
    /\ main_pc' = "svc_handler"
    /\ UNCHANGED <<timevars, irqvars, task_table, table_idx, current_task, loop_i,
                   task_stack, req_entered, entries, overrun, start_tick, busy_ticks>>
    /\ UNCHANGED <<coop_check, switch_log, add_calls, ptimer>>
    /\ UNCHANGED hwvars

\* SVC_Handler_Top runs to its exception return
PrivSvcHandler ==
    /\ irq_pc = "idle"
    /\ main_pc = "svc_handler"
    /\ LET r == SVC_Handler_Top(cpu)
       IN  /\ cpu' = r.cpu
           /\ main_pc' = r.pc
    /\ UNCHANGED <<timevars, irqvars, task_table, table_idx, current_task, loop_i,
                   task_stack, req_entered, entries, overrun, start_tick, busy_ticks>>
    /\ UNCHANGED <<coop_check, switch_log, add_calls, ptimer>>
    /\ UNCHANGED hwvars

\* run_task after svc 0: pop {r0, lr}; msr cpsr, r0; return.  With the words it
\* pushed popped from the stack in use, run_task returns into sched_run; otherwise
\* its return depends on what the compiler's epilogue finds: it comes back into
\* sched_run or control leaves the program
PrivAfterSvc ==
    /\ irq_pc = "idle"
    /\ main_pc = "after_svc"
    /\ cpu' = run_task_epilogue(cpu)
    /\ IF cpu'.lr = RetSchedRun
       THEN main_pc' = "returned"
       ELSE main_pc' \in {"returned", "fault"}
    /\ UNCHANGED <<timevars, irqvars, task_table, table_idx, current_task, loop_i,
                   task_stack, req_entered, entries, overrun, start_tick, busy_ticks>>
    /\ UNCHANGED <<coop_check, switch_log, add_calls, ptimer>>
    /\ UNCHANGED hwvars

NextPriv ==
    \/ IrqAck
    \/ IrqReact
    \/ IrqEnd
    \/ AddTask
    \/ CallSchedRun
    \/ RegisterTask
    \/ StartFirstTask
    \/ LoopCheck
    \/ PrivEnter
    \/ PrivEntryReturns
    \/ PrivSvc
    \/ PrivSvcHandler
    \/ PrivAfterSvc
    \/ ClearCurrent

SpecPriv == Init /\ [][NextPriv]_vars

---------------------------------------------------------------------------
(* Claims about the privilege transition *)

\* C14 (as claimed): whenever a task entry entered by the timer-driven scheduler
\* is executing, the processor is in unprivileged (user) mode: the scheduler
\* switches to user mode before it invokes the entry, and the task body never runs
\* in a privileged mode.
C14_TaskRunsInUserMode ==
    (task_stack # <<>> /\ irq_pc = "idle") => cpu.cpsr.mode = MODE_USR

\* C15 (as claimed): after the task-ended trap (svc 0) the trap handler does not
\* return to unprivileged mode: execution resumes after the trap inside run_task in
\* supervisor mode, then at the return address saved at entry, and the run loop
\* continues in privileged mode.
C15_TrapResumesInSupervisorMode ==
    (irq_pc = "idle" /\ main_pc \in {"after_svc", "returned", "loop"})
        => cpu.cpsr.mode = MODE_SVC

C17_TrapLeavesStackBalanced ==
    /\ cpu.r0 # NoWord => (cpu.r0 = CpsrWord(cpu.at_call) /\ cpu.lr = RetSchedRun)
    /\ main_pc = "loop" => cpu.svc_stack = <<>>

---------------------------------------------------------------------------
(* Progress of the interrupt handler.  irq_handler runs in IRQ mode with IRQs    *)
(* masked and nothing preempts it, so the processor keeps executing it: its      *)
(* steps are taken whenever they stay enabled.  Nothing is assumed of the        *)
(* mainline or of the arrival of interrupts.  The system is the one of SpecPriv  *)
(* with fewer tasks and ticks.                                                    *)

MaxLiveTicks == 2
MaxLiveTasks == 1
MaxLivePeriod == 1

\* irq_handler acknowledges an interrupt; the timer expires MaxLiveTicks times
LiveIrqAck ==
    /\ IrqAck
    /\ irq_id' = PTIMER_INTERRUPT => nticks < MaxLiveTicks

\* main: sched_add_task(&taskN, period)
LiveAddTask ==
    /\ table_idx < MaxLiveTasks
    /\ AddTask
    /\ task_table'[table_idx].period <= MaxLivePeriod

NextLive ==
    \/ LiveIrqAck
    \/ IrqReact
    \/ IrqEnd
    \/ LiveAddTask
    \/ CallSchedRun
    \/ RegisterTask
    \/ StartFirstTask
    \/ LoopCheck
    \/ PrivEnter
    \/ PrivEntryReturns
    \/ PrivSvc
    \/ PrivSvcHandler
    \/ PrivAfterSvc
    \/ ClearCurrent

SpecLive == Init /\ [][NextLive]_vars /\ WF_vars(IrqReact) /\ WF_vars(IrqEnd)

\* irq_handler has returned, and its last call was gic_end_interrupt for the
\* line it acknowledged
Completed ==
    /\ irq_pc = "idle"
    /\ irq_trace # <<>>
    /\ irq_trace[Len(irq_trace)] = [op |-> "eoi", id |-> irq_id]

\* C18: in the complete timer-driven system (timer interrupts, event callbacks,
\* run loop, tasks and traps) every acknowledged interrupt is eventually
\* completed: end_of_interrupt is issued for the acknowledged line on every path
\* through the handler.
C18_AcknowledgedEventuallyCompleted == (irq_pc = "acked") ~> Completed

\* a timer interrupt that invoked an event callback was completed after it had
\* interrupted run_task between the trap and its return
C18_Witness ==
    /\ Completed
    /\ irq_id = PTIMER_INTERRUPT
    /\ invoked # <<>>
    /\ main_pc = "after_svc"
    /\ cpu.cpsr.mode = MODE_USR

---------------------------------------------------------------------------
(* The private timer and its reaction.  The timer reloads itself and expires     *)
(* every period, whatever the processor does; an expiry sets the event flag of   *)
(* its interrupt status register, which asserts interrupt 29 until ptimer_isr    *)
(* writes ISR_CLEAR.                                                              *)

MaxTimerExpiries == 4

\* a reaction that returns without the write of ISR_CLEAR
ptimer_isr_no_clear(t) == t

\* ptimer_isr, first statement: WRITE32(regs->ISR, ISR_CLEAR)
ptimer_isr(t) == [t EXCEPT !.flag = FALSE]

\* the counter has counted every expiry so far: freshly booted, or NearWrap ticks
\* before it wraps
InitTimer ==
    /\ systime \in StartTimes
    /\ InitTime /\ InitSched /\ InitIrq
    /\ coop_check = NoCheck
    /\ switch_log = <<>>
    /\ add_calls = <<>>
    /\ cpu = MainCpu
    /\ ptimer = StoppedTimer(systime)
    /\ InitHw

\* the timer reaches zero and reloads: the event flag is set; an expiry that finds
\* it set leaves no trace in the hardware
TimerExpire ==
    /\ ptimer.n < MaxTimerExpiries
    /\ ptimer' = [flag |-> TRUE,
                  expiries |-> u32_add(ptimer.expiries, u32(1)),
                  n |-> ptimer.n + 1,
                  merged |-> ptimer.merged + (IF ptimer.flag THEN 1 ELSE 0)]
    /\ UNCHANGED <<timevars, schedvars, irqvars>>
    /\ UNCHANGED <<coop_check, switch_log, add_calls, cpu>>
    /\ UNCHANGED hwvars

\* irq_handler acknowledges the timer's interrupt, asserted while the flag is set,
\* or the UART's
TimerIrqAck ==
    /\ irq_pc = "idle"
    /\ cpu.cpsr.I = 0
    /\ cpu' = [cpu EXCEPT !.spsr_irq = cpu.cpsr, !.cpsr = TakeException(cpu.cpsr, MODE_IRQ)]
    /\ \E id \in {PTIMER_INTERRUPT, UART0_INTERRUPT} :
         /\ id = PTIMER_INTERRUPT => ptimer.flag
         /\ irq_id' = id
         /\ irq_trace' = <<[op |-> "ack", id |-> id]>>
    /\ irq_pc' = "acked"
    /\ UNCHANGED <<timevars, schedvars>>
    /\ UNCHANGED <<coop_check, switch_log, add_calls, ptimer>>
    /\ UNCHANGED hwvars

\* irq_handler calls ptimer_isr, which clears the interrupt
TimerIsrClear ==
    /\ irq_pc = "acked"
    /\ callback(irq_id) = "ptimer_isr"
    /\ ptimer' = ptimer_isr(ptimer)
    /\ irq_pc' = "cleared"
    /\ UNCHANGED <<timevars, schedvars, irq_id, irq_trace>>
    /\ UNCHANGED <<coop_check, switch_log, add_calls, cpu>>
    /\ UNCHANGED hwvars

\* ptimer_isr, second statement: systime_tick(), and the isr returns
TimerIsrTick ==
    /\ irq_pc = "cleared"
    /\ irq_pc' = "reacted"
    /\ irq_trace' = Append(irq_trace, [op |-> callback(irq_id), id |-> irq_id])
    /\ LET now == u32_add(systime, u32(1))
           r == check_callbacks(callback_table, callback_table_mask, now)
       IN  /\ systime' = now
           /\ callback_table' = r.table
           /\ callback_table_mask' = r.mask
           /\ TickHistory(DueSet(callback_table, callback_table_mask, now), r.invoked,
                          nticks + 1)
    /\ UNCHANGED <<sched_ret, nsched, schedvars, irq_id>>
    /\ UNCHANGED auxvars
    /\ UNCHANGED hwvars

\* irq_handler calls the isr of another line, which takes its time
TimerOtherReact ==
    /\ irq_pc = "acked"
    /\ callback(irq_id) # "ptimer_isr"
    /\ irq_pc' = "reacted"
    /\ irq_trace' = IF callback(irq_id) # "NULL"
                    THEN Append(irq_trace, [op |-> callback(irq_id), id |-> irq_id])
                    ELSE irq_trace
    /\ UNCHANGED <<timevars, schedvars, irq_id>>
    /\ UNCHANGED auxvars
    /\ UNCHANGED hwvars

NextTimer ==
    \/ TimerExpire
    \/ TimerIrqAck
    \/ TimerIsrClear
    \/ TimerIsrTick
    \/ TimerOtherReact
    \/ IrqEnd

SpecTimer == InitTimer /\ [][NextTimer]_vars

\* no timer interrupt is asserted or being handled
TimerQuiet == irq_pc = "idle" /\ ~ptimer.flag

\* C19 (as claimed): the tick counter is incremented exactly once per hardware
\* timer expiry and wraps: after n expiries it equals n mod 2^32, whatever the
\* duration of reactions, callbacks and tasks; no expiry is counted twice and none
\* is missed.
C19_CounterEqualsExpiries == TimerQuiet => systime = ptimer.expiries

\* C19 (amended): the counter is incremented exactly once per timer reaction and
\* wraps, and no expiry is counted twice; an expiry is missed exactly when it finds
\* the flag of an earlier expiry still set, which takes a reaction or a masked
\* section longer than a timer period: after n expiries the counter equals n minus
\* the number of such expiries, mod 2^32, and equals n if there were none.
C19_CounterEqualsUnmergedExpiries ==
    /\ nticks <= ptimer.n
    /\ TimerQuiet => u32_add(systime, u32(ptimer.merged)) = ptimer.expiries

\* the counter has wrapped to zero with every expiry counted, other interrupts
\* having been handled in between
C19_Witness ==
    /\ TimerQuiet
    /\ systime = u32(0)
    /\ nticks = NearWrap
    /\ ptimer.merged = 0
    /\ irq_id = UART0_INTERRUPT

---------------------------------------------------------------------------
(* The life of a scheduled event *)

\* what check_callbacks does to the slot of an event it invokes: only a periodic
\* event is invoked a second time; a one-shot leaves its slot at the tick at which
\* it fires; a periodic event keeps its slot and is re-armed one period after the
\* tick that invoked it
SlotLifecycle ==
    /\ \A s \in DOMAIN prev_invoked : callback_table[s].period # 0
    /\ \A s \in DOMAIN last_invoked :
          callback_table[s].period = 0 => ~MaskBit(callback_table_mask, s)
    /\ \A s \in live :
          callback_table[s].period # 0 => MaskBit(callback_table_mask, s)
    /\ \A s \in DOMAIN last_invoked :
          (last_invoked[s] = nticks /\ callback_table[s].period # 0)
              => callback_table[s].time = u32_add(systime, u32(callback_table[s].period))

\* an event that is due gets its invocation: with one callback per tick, it is
\* passed over for at most as many ticks as there are other live events
InvokedInTurn ==
    \A s \in DOMAIN waiting : nticks - waiting[s].since < Cardinality(live)

\* C20 (as claimed): a one-shot event (period zero) is invoked exactly once and
\* its slot is free, and reusable by a later schedule_event, from the tick at
\* which it fires; a periodic event is never freed and keeps being re-armed and
\* invoked for as long as the system runs.
C20_OneShotOncePeriodicForEver == SlotLifecycle /\ InvokedInTurn

---------------------------------------------------------------------------
(* Enabling interrupt lines: gic_enable_interrupt after gic_init *)

MaxExtraLines == 1

\* the number of lines the set-enable registers hold: DISENABLER[32], 32 bits each
NumLines == 32 * 32

\* the lines main enables
MainLines == {UART0_INTERRUPT, PTIMER_INTERRUPT}

\* the values of a uint8_t
Uint8 == 0 .. (U8 - 1)

\* identifiers past the last line of the controller, as a caller can write them
InvalidLines == {NumLines + UART0_INTERRUPT, NumLines + U8 - 1}

\* the lines whose enable bit is set
EnabledLines(dregs) ==
    UNION { {8 * (o - GICD_ISENABLER) + b : b \in dregs[o]} :
              o \in DOMAIN dregs \cap (GICD_ISENABLER .. (GICD_ISENABLER + (NumLines \div 8) - 1)) }

\* main has called gic_init and nothing else of the drivers
InitGic ==
    /\ systime = u32(0) /\ InitTime /\ InitSched /\ InitIrq /\ InitAux
    /\ gic_dregs = gic_init_distributor(ResetDregs)
    /\ gic_ifregs = gic_init_interface(ResetIfregs)
    /\ regs = ResetRegs
    /\ isr_table = UartIsrs
    /\ drv_call = DrvCall("gic_init", 0, TRUE, "void")

\* gic_enable_interrupt(number), for the lines of main and a few others
GicEnable ==
    /\ \E number \in IF Cardinality(EnabledLines(gic_dregs) \ MainLines) < MaxExtraLines
                      THEN Uint8 \cup InvalidLines
                      ELSE MainLines :
         /\ gic_dregs' = gic_enable_interrupt(gic_dregs, number)
         /\ drv_call' = DrvCall("gic_enable_interrupt", number, TRUE, "void")
    /\ UNCHANGED <<timevars, schedvars, irqvars, auxvars>>
    /\ UNCHANGED <<gic_ifregs, regs, isr_table>>

NextGic == GicEnable

SpecGic == InitGic /\ [][NextGic]_vars

\* the last driver call was gic_enable_interrupt(n)
Enabled(n) == drv_call.op = "gic_enable_interrupt" /\ drv_call.arg = n

C22_EnableTargetsTheLine ==
    \A n \in Uint8 : Enabled(n) => 0 \in LineTargets(gic_dregs, n)

\* C25: enable(line_id) with an identifier outside the controller's range of
\* lines returns an error result code and modifies no enable or target register.
C25_InvalidLineRejected ==
    [][\A n \in InvalidLines :
          (drv_call' # drv_call /\ drv_call'.op = "gic_enable_interrupt" /\ drv_call'.arg = n)
              => (drv_call'.ret # "void" /\ gic_dregs' = gic_dregs)]_vars

---------------------------------------------------------------------------
(* Starting the private timer: ptimer_init *)

MaxMillisecs == 12

\* main has initialised the controller and enabled its two lines
InitPtimer ==
    /\ systime = u32(0) /\ InitTime /\ InitSched /\ InitIrq /\ InitAux
    /\ gic_dregs = gic_enable_interrupt(
                       gic_enable_interrupt(gic_init_distributor(ResetDregs),
                                            UART0_INTERRUPT),
                       PTIMER_INTERRUPT)
    /\ gic_ifregs = gic_init_interface(ResetIfregs)
    /\ regs = ResetRegs
    /\ isr_table = UartIsrs
    /\ drv_call = DrvCall("gic_enable_interrupt", PTIMER_INTERRUPT, TRUE, "void")

\* ptimer_init(millisecs), for a period validate_config accepts or rejects
PtimerInit ==
    /\ \E millisecs \in 1 .. MaxMillisecs, valid \in BOOLEAN :
         LET r == ptimer_init(regs, isr_table, millisecs, valid)
         IN  /\ regs' = r.regs
             /\ isr_table' = r.isr_table
             /\ drv_call' = DrvCall("ptimer_init", millisecs, valid, r.ret)
    /\ UNCHANGED <<timevars, schedvars, irqvars, auxvars>>
    /\ UNCHANGED <<gic_dregs, gic_ifregs>>

NextPtimer == PtimerInit

SpecPtimer == InitPtimer /\ [][NextPtimer]_vars

\* C24: timer initialisation with an out-of-range period returns the
\* invalid-period result code and has no other effect: the load register is not
\* written, no reaction is registered for the timer line, the timer is not started.
C24_InvalidPeriodHasNoEffect ==
    [][(drv_call' # drv_call /\ drv_call'.op = "ptimer_init" /\ ~drv_call'.valid)
          => /\ drv_call'.ret = PTIMER_INVALID_PERIOD
             /\ regs' = regs
             /\ isr_table' = isr_table
             /\ gic_dregs' = gic_dregs /\ gic_ifregs' = gic_ifregs]_vars

\* a rejected call, and the timer still as reset left it
C24_Witness ==
    /\ drv_call.op = "ptimer_init" /\ ~drv_call.valid
    /\ drv_call.ret = PTIMER_INVALID_PERIOD
    /\ regs.LR = <<>> /\ "ENABLE" \notin regs.CTRL
    /\ PTIMER_INTERRUPT \notin DOMAIN isr_table

---------------------------------------------------------------------------
(* The start of the timer-driven scheduler: one event for each task *)

MaxRegTicks == 2

RECURSIVE AddTasks(_, _, _)
\* main: sched_add_task(entry, period) for each task of `tasks`, in order
AddTasks(table, idx, tasks) ==
    IF tasks = <<>>
    THEN [table |-> table, idx |-> idx]
    ELSE LET r == sched_add_task(table, idx, Head(tasks).entry, Head(tasks).period)
         IN  AddTasks(r.table, r.idx, Tail(tasks))

\* the task sets main adds: n tasks with periods 1 .. MaxTaskPeriod in turn, one of
\* them (none if odd = n) given a period of zero or a null entry
RegTaskSets ==
    { [i \in 1 .. n |->
          [entry  |-> IF i - 1 = odd /\ kind = "null_entry" THEN "NULL" ELSE TaskEntry(i - 1),
           period |-> IF i - 1 = odd /\ kind = "zero_period"
                      THEN 0 ELSE 1 + ((i - 1) % MaxTaskPeriod)]] :
        n \in 0 .. MAX_NUM_TASKS, odd \in 0 .. MAX_NUM_TASKS,
        kind \in {"zero_period", "null_entry"} }

\* main has added its tasks and is about to call sched_run
InitReg ==
    /\ systime = u32(0) /\ InitTime /\ InitIrq /\ InitAux /\ InitHw
    /\ \E tasks \in RegTaskSets :
         LET r == AddTasks([i \in TaskIds |-> EmptyTask], 0, tasks)
         IN  task_table = r.table /\ table_idx = r.idx
    /\ current_task = NULL_TASK
    /\ main_pc = "main"
    /\ loop_i = 0
    /\ task_stack = <<>>
    /\ req_entered = FALSE
    /\ entries = <<>>
    /\ overrun = FALSE
    /\ start_tick = 0
    /\ busy_ticks = 0

\* the timer keeps ticking while sched_run registers the events
RegIrqAck ==
    /\ IrqAck
    /\ irq_id' = PTIMER_INTERRUPT => nticks < MaxRegTicks

NextReg ==
    \/ CallSchedRun
    \/ RegisterTask
    \/ StartFirstTask
    \/ RegIrqAck
    \/ IrqReact
    \/ IrqEnd

SpecReg == InitReg /\ [][NextReg]_vars

\* the occupied slots that hold the event of task i
EventsOf(i) ==
    { s \in Slots : /\ MaskBit(callback_table_mask, s)
                    /\ callback_table[s].cb = "task_switch_callback"
                    /\ callback_table[s].arg = i }

\* task i has exactly one event: repeating with the task's period, triggering
\* first at last_run + period, carrying the task's identifier
OneRepeatingEvent(i) ==
    /\ Cardinality(EventsOf(i)) = 1
    /\ \A s \in EventsOf(i) :
         /\ callback_table[s].period = task_table[i].period
         /\ callback_table[s].period # 0
         /\ s \notin DOMAIN last_invoked
              => callback_table[s].time
                     = u32_add(task_table[i].last_run, u32(task_table[i].period))

\* sched_run has left its registration loop
Started == main_pc \notin {"main", "register"}

Periodic(i) == task_table[i].entry # "NULL" /\ task_table[i].period # 0

---------------------------------------------------------------------------
(* The supervisor-call handler of startup.s register by register, with the     *)
(* traps of the chapter's test code (svc 0x42 in ARM state, svc 0xbb in Thumb *)
(* state) among the trapping instructions                                     *)

\* the traps one behaviour takes
MaxTraps == 2

SYSCALL_ENDTASK == 0

\* ARM state: svc <imm24> under condition `cond`, as the word in memory
\* (bits 31..28 the condition, 27..24 all ones, 23..0 the number)
svc_arm(cond, imm24) ==
    [hi |-> cond * 4096 + 15 * 256 + (imm24 \div 65536), lo |-> imm24 % 65536]

\* Thumb state: svc <imm8> is the halfword 0xDF00 + imm8; `prev` is the halfword
\* before it in memory.  Together they are the four bytes before the return address
svc_thumb(imm8, prev) == [hi |-> 57088 + imm8, lo |-> prev]

\* the handler with the Thumb test left out: ldr r0, [lr, #-4];
\* bic r0, r0, #0xFF000000 in either state
svc_number_arm_only(spsr, code) == (code.hi % 256) * 65536 + code.lo

\* tst r0, #0x20; ldrneh r0, [lr, #-2]; bicne r0, r0, #0xFF00;
\* ldreq r0, [lr, #-4]; biceq r0, r0, #0xFF000000, with the saved status in r0 and
\* `code` the word before the return address
svc_number(spsr, code) ==
    IF spsr.T = 1
    THEN code.hi % 256
    ELSE (code.hi % 256) * 65536 + code.lo

\* the processor takes the supervisor-call exception: CPSR goes to SPSR_svc, the
\* address after the svc to lr_svc
svc_exception(c) ==
    [c EXCEPT !.spsr_svc = c.cpsr,
              !.cpsr = TakeException(c.cpsr, MODE_SVC),
              !.lr_svc = AddrWord("after_svc")]

\* r12 .. r0, the order in which a push leaves r0 .. r12 below lr
PushOrder(r) == [i \in 1 .. Len(r) |-> r[Len(r) + 1 - i]]

\* SVC_Handler_Top up to the call of the C handler: push {r0-r12, lr};
\* mrs r0, spsr; push {r0}; the extraction of the number into r0; mov r1, sp
SVC_Handler_Top_save(c) ==
    LET stack1 == c.svc_stack \o <<c.lr_svc>> \o PushOrder(c.r)
        stack2 == stack1 \o <<CpsrWord(c.spsr_svc)>>
        number == svc_number(c.spsr_svc, c.code)
        sp == [ValWord(Len(stack2)) EXCEPT !.kind = "sp"]
    IN  [c EXCEPT !.svc_stack = stack2,
                  !.r = [i \in 1 .. 13 |-> IF i = 1 THEN ValWord(number)
                                           ELSE IF i = 2 THEN sp
                                           ELSE c.r[i]]]

\* syscall_handler(syscall, regs), called with bl: the task-ended operation moves
\* regs[LR_REG_OFFSET] into pc; any other number falls through the switch and the
\* function returns, with the registers a C function need not preserve (r0-r3,
\* r12) holding whatever it left there
syscall_handler(c) ==
    LET syscall == c.r[1].val
        regs_sp == c.r[2].val
        called == [c EXCEPT !.lr_svc = AddrWord("svc_ret")]
    IN  IF syscall = SYSCALL_ENDTASK
        THEN [cpu |-> called, pc |-> c.svc_stack[regs_sp - 14].addr]
        ELSE [cpu |-> [called EXCEPT !.r = [i \in 1 .. 13 |->
                                               IF i \in {1, 2, 3, 4, 13} THEN Garbage
                                               ELSE c.r[i]]],
              pc |-> "svc_ret"]

\* the return with ldmfd sp!, {r0-r12, pc} in place of its last instruction: no ^,
\* CPSR stays as the handler has it
SVC_Handler_Top_return_no_cpsr(c) ==
    LET n == Len(c.svc_stack)
        frame == SubSeq(c.svc_stack, n - 14, n - 1)
    IN  [cpu |-> [c EXCEPT !.svc_stack = SubSeq(c.svc_stack, 1, n - 15),
                           !.spsr_svc = c.svc_stack[n].cpsr,
                           !.r = PushOrder(SubSeq(frame, 2, 14))],
         pc |-> frame[1].addr]

\* SVC_Handler_Top after the call: pop {r0}; msr spsr_cxsf, r0;
\* ldmfd sp!, {r0-r12, pc}^ (the ^ copies SPSR to CPSR)
SVC_Handler_Top_return(c) ==
    LET n == Len(c.svc_stack)
        spsr == c.svc_stack[n].cpsr
        frame == SubSeq(c.svc_stack, n - 14, n - 1)
    IN  [cpu |-> [c EXCEPT !.svc_stack = SubSeq(c.svc_stack, 1, n - 15),
                           !.spsr_svc = spsr,
                           !.cpsr = spsr,
                           !.r = PushOrder(SubSeq(frame, 2, 14))],
         pc |-> frame[1].addr]

\* the numbers of the trapping instructions: the task-ended operation, the two of
\* the test code, the largest of either encoding and one that needs nine bits
TrapNumbers == {SYSCALL_ENDTASK, 66, 187, 255, 256, 16777215}

\* the condition fields of the trapping instructions: always, and equal
TrapConds == {14, 0}

\* the halfword before a Thumb svc
PrevHalfwords == {0, 57153}

\* the words that can precede a return address: an svc of either encoding
TrapCodes(T) ==
    IF T = 1
    THEN {[thumb |-> TRUE, imm |-> n, code |-> svc_thumb(n, prev)] :
              n \in {m \in TrapNumbers : m < 256}, prev \in PrevHalfwords}
    ELSE {[thumb |-> FALSE, imm |-> n, code |-> svc_arm(cond, n)] :
              n \in TrapNumbers, cond \in TrapConds}

\* r0 .. r12 as the test code loads them (r0 = 0xa0, r1 = 0xa1, r10 = 0xaa,
\* r11 = 0xab), and as values the model does not follow
RegisterFiles ==
    {[i \in 1 .. 13 |-> IF i = 1 THEN ValWord(160)
                        ELSE IF i = 2 THEN ValWord(161)
                        ELSE IF i = 11 THEN ValWord(170)
                        ELSE IF i = 12 THEN ValWord(171)
                        ELSE AddrWord("reg")],
     [i \in 1 .. 13 |-> AddrWord("reg")]}

\* the processor about to execute an svc: in user, system or supervisor mode, in
\* either instruction-set state, IRQs masked or not, the supervisor stack empty or
\* holding what run_task pushed; calls_c says whether the handler is built with
\* its call of the C handler (startup.s has the line commented out).  trap, pre
\* and log are history: the trapping instruction, the processor before the trap,
\* and the traps handled with the numbers extracted
TrapCpus ==
    UNION {
    {[cpsr |-> [mode |-> mode, I |-> I, F |-> 0, T |-> T],
      spsr_svc |-> MainCpsr,
      svc_stack |-> stack,
      r |-> r,
      lr_svc |-> NoWord,
      code |-> t.code,
      calls_c |-> calls_c,
      trap |-> [thumb |-> t.thumb, imm |-> t.imm],
      pre |-> [cpsr |-> MainCpsr, r |-> r, svc_stack |-> <<>>],
      log |-> <<>>] :
         mode \in {MODE_USR, MODE_SYS, MODE_SVC}, I \in {0, 1},
         stack \in {<<>>, <<RetSchedRun, CpsrWord(MainCpsr)>>},
         r \in RegisterFiles, t \in TrapCodes(T), calls_c \in BOOLEAN} : T \in {0, 1}}

InitTrap ==
    /\ systime = u32(0) /\ InitTime /\ InitIrq /\ InitHw
    /\ task_table = [i \in TaskIds |-> EmptyTask]
    /\ table_idx = 0
    /\ current_task = NULL_TASK
    /\ main_pc = "trap"
    /\ loop_i = 0
    /\ task_stack = <<>>
    /\ req_entered = FALSE
    /\ entries = <<>>
    /\ overrun = FALSE
    /\ start_tick = 0
    /\ busy_ticks = 0
    /\ coop_check = NoCheck
    /\ switch_log = <<>>
    /\ add_calls = <<>>
    /\ cpu \in TrapCpus
    /\ ptimer = StoppedTimer(u32(0))

TrapUnchanged ==
    /\ UNCHANGED <<timevars, irqvars, task_table, table_idx, current_task, loop_i,
                   task_stack, req_entered, entries, overrun, start_tick, busy_ticks>>
    /\ UNCHANGED <<coop_check, switch_log, add_calls, ptimer>>
    /\ UNCHANGED hwvars

\* the svc executes: the processor takes the exception
TrapSvc ==
    /\ main_pc = "trap"
    /\ cpu' = [svc_exception(cpu) EXCEPT
                   !.pre = [cpsr |-> cpu.cpsr, r |-> cpu.r, svc_stack |-> cpu.svc_stack]]
    /\ main_pc' = "svc_handler"
    /\ TrapUnchanged

\* the handler saves the registers and extracts the number
TrapSave ==
    /\ main_pc = "svc_handler"
    /\ LET c == SVC_Handler_Top_save(cpu)
       IN  cpu' = [c EXCEPT !.log = Append(@, [thumb |-> cpu.trap.thumb,
                                               imm |-> cpu.trap.imm,
                                               number |-> c.r[1].val])]
    /\ main_pc' = "svc_call"
    /\ TrapUnchanged

\* bl syscall_handler, in a build that has the call
TrapCall ==
    /\ main_pc = "svc_call"
    /\ cpu.calls_c
    /\ LET r == syscall_handler(cpu)
       IN  /\ cpu' = r.cpu
           /\ main_pc' = r.pc
    /\ TrapUnchanged

\* the handler restores the registers and returns from the exception
TrapReturn ==
    /\ \/ main_pc = "svc_call" /\ ~cpu.calls_c
       \/ main_pc = "svc_ret"
    /\ LET r == SVC_Handler_Top_return(cpu)
       IN  /\ cpu' = r.cpu
           /\ main_pc' = r.pc
    /\ TrapUnchanged

\* the program goes on to its next svc, in either instruction-set state (the test
\* code reaches its Thumb svc by a branch), with other values in the registers
TrapNext ==
    /\ main_pc = "after_svc"
    /\ Len(cpu.log) < MaxTraps
    /\ \E T \in {0, 1}, r \in RegisterFiles :
         \E t \in TrapCodes(T) :
            cpu' = [cpu EXCEPT !.cpsr.T = T,
                               !.r = r,
                               !.code = t.code,
                               !.trap = [thumb |-> t.thumb, imm |-> t.imm]]
    /\ main_pc' = "trap"
    /\ TrapUnchanged

NextTrap ==
    \/ TrapSvc
    \/ TrapSave
    \/ TrapCall
    \/ TrapReturn
    \/ TrapNext

SpecTrap == InitTrap /\ [][NextTrap]_vars

\* C27: the trap number handed to the C handler is extracted from the trapping
\* instruction itself: the low 24 bits of the 32-bit instruction before the return
\* address when the trap was taken in ARM state, the low 8 bits of the 16-bit
\* instruction when it was taken in Thumb state; svc 0x42 in ARM state yields 0x42
\* and svc 0xbb in Thumb state yields 0xbb.
C27_TrapNumberFromInstruction ==
    main_pc = "svc_call" =>
        /\ cpu.r[1] = ValWord(IF cpu.spsr_svc.T = 1
                              THEN cpu.code.hi % (2 ^ 8)
                              ELSE (cpu.code.hi % (2 ^ 8)) * (2 ^ 16) + cpu.code.lo)
        /\ cpu.r[1].val = cpu.trap.imm
        /\ cpu.trap.thumb <=> cpu.spsr_svc.T = 1
        /\ \A i \in 1 .. Len(cpu.log) : cpu.log[i].number = cpu.log[i].imm

\* the test code's two traps: svc 0x42 in ARM state, then svc 0xbb in Thumb state
C27_Witness ==
    /\ main_pc = "svc_call"
    /\ Len(cpu.log) = 2
    /\ cpu.log[1] = [thumb |-> FALSE, imm |-> 66, number |-> 66]
    /\ cpu.log[2] = [thumb |-> TRUE, imm |-> 187, number |-> 187]
    /\ cpu.r[1] = ValWord(187)

\* C28: a trap whose operation is not the task-ended operation returns to the
\* instruction following the trap with r0-r12 at their pre-trap values, sp_svc at
\* its pre-trap value, and the processor status (mode and Thumb state) restored to
\* what it was when the trap was taken.
C28_TrapReturnRestores ==
    [][(/\ main_pc \in {"svc_call", "svc_ret"}
        /\ main_pc' \notin {"svc_call", "svc_ret"}
        /\ cpu.trap.imm # SYSCALL_ENDTASK)
          => /\ main_pc' = "after_svc"
             /\ cpu'.r = cpu.pre.r
             /\ cpu'.svc_stack = cpu.pre.svc_stack
             /\ cpu'.cpsr.mode = cpu.pre.cpsr.mode
             /\ cpu'.cpsr.T = cpu.pre.cpsr.T]_vars

\* back after svc 0xbb taken in Thumb state in user mode, in a build whose handler
\* calls the C handler: the registers of the test code and what run_task pushed on
\* the supervisor stack are in place
C28_Witness ==
    /\ main_pc = "after_svc"
    /\ cpu.calls_c
    /\ cpu.trap = [thumb |-> TRUE, imm |-> 187]
    /\ Len(cpu.log) = 1
    /\ cpu.cpsr.mode = MODE_USR /\ cpu.cpsr.T = 1
    /\ cpu.r[1] = ValWord(160) /\ cpu.r[12] = ValWord(171)
    /\ cpu.svc_stack = <<RetSchedRun, CpsrWord(MainCpsr)>>

---------------------------------------------------------------------------
(* The timer-driven system with a task that never returns (task2 of the       *)
(* chapter: while(1) after its greeting)                                      *)

\* the timer ticks one behaviour takes
MaxHangTicks == 2

\* the entry whose body ends in while(1)
NeverEnds(entry) == entry = "task2"

\* main: sched_add_task(&taskN, period), any slot of the table taking task2 in place
\* of its own task
HangAddTask ==
    /\ irq_pc = "idle"
    /\ main_pc = "main"
    /\ table_idx < MaxTasks
    /\ \E period \in 1 .. MaxTaskPeriod, entry \in {TaskEntry(table_idx), "task2"} :
         LET r == sched_add_task(task_table, table_idx, entry, period)
         IN  /\ task_table' = r.table
             /\ table_idx' = r.idx
             /\ add_calls' = Append(add_calls, r.ret)
    /\ UNCHANGED <<timevars, irqvars, current_task, main_pc, loop_i, task_stack,
                   req_entered, entries, overrun, start_tick,
                   busy_ticks>>
    /\ UNCHANGED <<coop_check, switch_log, cpu, ptimer>>
    /\ UNCHANGED hwvars

\* the entry returns into activate_task, unless its body never ends
HangTaskEnd ==
    /\ main_pc = "in_task"
    /\ task_stack # <<>>
    /\ ~NeverEnds(task_table[task_stack[Len(task_stack)].id].entry)
    /\ TaskEnd

\* the private timer's interrupt is taken (the only line that raises interrupts
\* here)
PtimerIrqAck == nticks < MaxHangTicks /\ IrqAck /\ irq_id' = PTIMER_INTERRUPT

NextHang ==
    \/ PtimerIrqAck
    \/ IrqReact
    \/ IrqEnd
    \/ HangAddTask
    \/ CallSchedRun
    \/ RegisterTask
    \/ StartFirstTask
    \/ LoopCheck
    \/ EnterTask
    \/ HangTaskEnd
    \/ ClearCurrent

\* the timer raises its line at every expiry and the line stays pending until the
\* handler acknowledges it; the handler, once entered, runs to its end
SpecHang ==
    /\ Init
    /\ [][NextHang]_vars
    /\ SF_vars(PtimerIrqAck)
    /\ WF_vars(IrqReact)
    /\ WF_vars(IrqEnd)

\* the run loop is inside the call of an entry that never returns
Hung ==
    /\ main_pc = "in_task"
    /\ task_stack # <<>>
    /\ NeverEnds(task_table[task_stack[1].id].entry)

\* C29: once a task is entered it runs until it voluntarily returns control: if an
\* entered task never does, no other task is ever entered afterwards and the run
\* loop never regains control, while timer ticks keep advancing the counter (here
\* up to the number of ticks the model follows) and event callbacks keep being
\* invoked at the ticks at which events are due.
C29_HungTaskKeepsProcessor ==
    /\ [][Hung => /\ Hung'
                  /\ task_stack' = task_stack
                  /\ entries' = entries]_vars
    /\ [][(Hung /\ nticks' # nticks)
             => /\ systime' = u32_add(systime, u32(1))
                /\ due_before' # {} => invoked' # <<>>]_vars
    /\ [](Hung /\ irq_pc = "idle" => cpu.cpsr.I = 0)
    /\ Hung ~> (Hung /\ nticks = MaxHangTicks)

\* task2 was entered first and hangs; all the ticks the model follows have been
\* taken, the last one invoked a callback, and a callback has made the other task
\* the current one at some tick; that task has never been entered
C29_Witness ==
    /\ Hung
    /\ task_stack[1].id = 0
    /\ nticks = MaxHangTicks
    /\ invoked # <<>>
    /\ 1 \notin DOMAIN entries
    /\ \E k \in DOMAIN switch_log : switch_log[k].to = 1

---------------------------------------------------------------------------
(* The boot sequence: the reset handler of startup.s, then main of cstart.c up *)
(* to the start of the timer, with the interrupts the devices can raise       *)

\* the interrupts one behaviour takes during boot
MaxBootIrqs == 4

\* CPSR as reset leaves it: supervisor mode, IRQ and FIQ masked, ARM state
ResetCpsr == [mode |-> MODE_SVC, I |-> 1, F |-> 1, T |-> 0]

MODE_FIQ == 17

\* Reset_Handler's writes of the control field while it fills the stacks, in order:
\* msr cpsr_c, MODE_FIQ; MODE_IRQ; MODE_SVC; MODE_SYS; MODE_SVC
BootModes == <<MODE_FIQ, MODE_IRQ, MODE_SVC, MODE_SYS, MODE_SVC>>

\* cpsid if
cpsid_if(cpsr) == IF Privileged(cpsr) THEN [cpsr EXCEPT !.I = 1, !.F = 1] ELSE cpsr

\* cpu_enable_interrupts: cpsie if
cpu_enable_interrupts(cpsr) ==
    IF Privileged(cpsr) THEN [cpsr EXCEPT !.I = 0, !.F = 0] ELSE cpsr

\* the isr the registry holds for a line, NULL for none
irq_get_isr(table, irq) == IF irq \in DOMAIN table THEN table[irq] ELSE "NULL"

\* the controller signals the processor: both its halves are on and the line is
\* enabled
Forwards(dregs, ifregs, line) ==
    /\ CCTRL_ENABLE \subseteq ifregs.CCTLR
    /\ DCTRL_ENABLE \subseteq READ32(dregs, RegOffset("DCTLR", 0))
    /\ LineEnabled(dregs, line)

\* the device behind a line raises it: the UART whenever a character arrives, the
\* private timer once it is started with its interrupt enabled
Raises(r, line) ==
    \/ line = UART0_INTERRUPT
    \/ line = PTIMER_INTERRUPT /\ {"ENABLE", "IRQ_ENABLE"} \subseteq r.CTRL

\* the acknowledges in the handler's trace
Acks(trace) == Cardinality({k \in DOMAIN trace : trace[k].op = "ack"})

InitBoot ==
    /\ systime = u32(0) /\ InitTime /\ InitIrq
    /\ task_table = [i \in TaskIds |-> EmptyTask]
    /\ table_idx = 0
    /\ current_task = NULL_TASK
    /\ main_pc = "reset"
    /\ loop_i = 0
    /\ task_stack = <<>>
    /\ req_entered = FALSE
    /\ entries = <<>>
    /\ overrun = FALSE
    /\ start_tick = 0
    /\ busy_ticks = 0
    /\ coop_check = NoCheck
    /\ switch_log = <<>>
    /\ add_calls = <<>>
    /\ cpu = [MainCpu EXCEPT !.cpsr = ResetCpsr]
    /\ ptimer = StoppedTimer(u32(0))
    /\ gic_dregs = ResetDregs
    /\ gic_ifregs = ResetIfregs
    /\ regs = ResetRegs
    /\ isr_table = [i \in {} |-> "NULL"]
    /\ drv_call = DrvCall("reset", 0, TRUE, "void")

\* what a step of the boot sequence leaves alone
BootUnchanged ==
    /\ UNCHANGED <<timevars, irqvars, task_table, table_idx, current_task, task_stack,
                   req_entered, entries, overrun, start_tick, busy_ticks>>
    /\ UNCHANGED <<coop_check, switch_log, add_calls, ptimer>>

\* Reset_Handler: the next msr cpsr_c, MODE_x and the loop that fills that stack
BootSetMode ==
    /\ irq_pc = "idle"
    /\ main_pc = "reset"
    /\ loop_i < Len(BootModes)
    /\ cpu' = [cpu EXCEPT !.cpsr = msr_cpsr_c(@, BootModes[loop_i + 1])]
    /\ loop_i' = loop_i + 1
    /\ UNCHANGED <<main_pc, hwvars>>
    /\ BootUnchanged

\* Reset_Handler: cpsid if ("Disable supervisor mode interrupts")
BootCpsid ==
    /\ irq_pc = "idle"
    /\ main_pc = "reset"
    /\ loop_i = Len(BootModes)
    /\ cpu' = [cpu EXCEPT !.cpsr = cpsid_if(@)]
    /\ main_pc' = "test_sys"
    /\ UNCHANGED <<loop_i, hwvars>>
    /\ BootUnchanged

\* the test code: msr cpsr_c, MODE_SYS
BootTestSys ==
    /\ irq_pc = "idle"
    /\ main_pc = "test_sys"
    /\ cpu' = [cpu EXCEPT !.cpsr = msr_cpsr_c(@, MODE_SYS)]
    /\ main_pc' = "test_svc"
    /\ UNCHANGED <<loop_i, hwvars>>
    /\ BootUnchanged

\* the test code: svc 0x42, and svc 0xbb in test2; each trap runs SVC_Handler_Top
\* and comes back
BootTestSvc ==
    /\ irq_pc = "idle"
    /\ main_pc = "test_svc"
    /\ LET r == SVC_Handler_Top([cpu EXCEPT !.spsr_svc = cpu.cpsr,
                                           !.cpsr = TakeException(cpu.cpsr, MODE_SVC)])
       IN  cpu' = r.cpu
    /\ loop_i' = loop_i + 1
    /\ main_pc' = IF loop_i = Len(BootModes) THEN "test_svc" ELSE "test_back"
    /\ UNCHANGED hwvars
    /\ BootUnchanged

\* the test code: msr cpsr_c, MODE_SVC.  Execution then runs into the Thumb code
\* of test2 in ARM state; it arrives at bl main or it leaves the program
BootTestBack ==
    /\ irq_pc = "idle"
    /\ main_pc = "test_back"
    /\ cpu' = [cpu EXCEPT !.cpsr = msr_cpsr_c(@, MODE_SVC)]
    /\ main_pc' \in {"main", "fault"}
    /\ UNCHANGED <<loop_i, hwvars>>
    /\ BootUnchanged

\* main: gic_init(), the writes to the CPU interface
BootGicInitInterface ==
    /\ irq_pc = "idle"
    /\ main_pc = "main"
    /\ gic_ifregs' = gic_init_interface(gic_ifregs)
    /\ main_pc' = "gic_init"
    /\ UNCHANGED <<loop_i, cpu, gic_dregs, regs, isr_table, drv_call>>
    /\ BootUnchanged

\* main: gic_init(), the write that turns the distributor on
BootGicInitDistributor ==
    /\ irq_pc = "idle"
    /\ main_pc = "gic_init"
    /\ gic_dregs' = gic_init_distributor(gic_dregs)
    /\ drv_call' = DrvCall("gic_init", 0, TRUE, "void")
    /\ main_pc' = "enable_uart"
    /\ UNCHANGED <<loop_i, cpu, gic_ifregs, regs, isr_table>>
    /\ BootUnchanged

\* main: gic_enable_interrupt(UART0_INTERRUPT); gic_enable_interrupt(PTIMER_INTERRUPT)
BootEnable ==
    /\ irq_pc = "idle"
    /\ main_pc \in {"enable_uart", "enable_ptimer"}
    /\ LET number == IF main_pc = "enable_uart" THEN UART0_INTERRUPT ELSE PTIMER_INTERRUPT
       IN  /\ gic_dregs' = gic_enable_interrupt(gic_dregs, number)
           /\ drv_call' = DrvCall("gic_enable_interrupt", number, TRUE, "void")
    /\ main_pc' = IF main_pc = "enable_uart" THEN "enable_ptimer" ELSE "cpu_enable"
    /\ UNCHANGED <<loop_i, cpu, gic_ifregs, regs, isr_table>>
    /\ BootUnchanged

\* main: cpu_enable_interrupts()
BootCpuEnable ==
    /\ irq_pc = "idle"
    /\ main_pc = "cpu_enable"
    /\ cpu' = [cpu EXCEPT !.cpsr = cpu_enable_interrupts(@)]
    /\ main_pc' = "ptimer_init"
    /\ UNCHANGED <<loop_i, hwvars>>
    /\ BootUnchanged

\* main: ptimer_init(1u), up to the load register: the period is validated, then
\* loaded
BootPtimerLoad ==
    /\ irq_pc = "idle"
    /\ main_pc = "ptimer_init"
    /\ \E valid \in BOOLEAN :
         IF valid
         THEN /\ regs' = ptimer_load(regs, MAIN_TICK_MS)
              /\ main_pc' = "ptimer_register"
              /\ UNCHANGED drv_call
         ELSE /\ drv_call' = DrvCall("ptimer_init", MAIN_TICK_MS, FALSE,
                                     ptimer_init(regs, isr_table, MAIN_TICK_MS, FALSE).ret)
              /\ main_pc' = "booted"
              /\ UNCHANGED regs
    /\ UNCHANGED <<loop_i, cpu, gic_dregs, gic_ifregs, isr_table>>
    /\ BootUnchanged

\* ptimer_init: irq_register_isr(PTIMER_INTERRUPT, ptimer_isr)
BootPtimerRegister ==
    /\ irq_pc = "idle"
    /\ main_pc = "ptimer_register"
    /\ isr_table' = irq_register_isr(isr_table, PTIMER_INTERRUPT, "ptimer_isr")
    /\ main_pc' = "ptimer_start"
    /\ UNCHANGED <<loop_i, cpu, gic_dregs, gic_ifregs, regs, drv_call>>
    /\ BootUnchanged

\* ptimer_init: the write of CTRL starts the timer
BootPtimerStart ==
    /\ irq_pc = "idle"
    /\ main_pc = "ptimer_start"
    /\ regs' = ptimer_start(regs)
    /\ drv_call' = DrvCall("ptimer_init", MAIN_TICK_MS, TRUE, PTIMER_OK)
    /\ main_pc' = "booted"
    /\ UNCHANGED <<loop_i, cpu, gic_dregs, gic_ifregs, isr_table>>
    /\ BootUnchanged

\* an interrupt reaches the dispatcher: the processor takes the IRQ exception and
\* irq_handler acknowledges the line
BootIrqAck ==
    /\ irq_pc = "idle"
    /\ main_pc # "fault"
    /\ cpu.cpsr.I = 0
    /\ Acks(irq_trace) < MaxBootIrqs
    /\ \E id \in {UART0_INTERRUPT, PTIMER_INTERRUPT} :
         /\ Forwards(gic_dregs, gic_ifregs, id)
         /\ Raises(regs, id)
         /\ irq_id' = id
         /\ irq_trace' = Append(irq_trace, [op |-> "ack", id |-> id])
    /\ cpu' = [cpu EXCEPT !.spsr_irq = cpu.cpsr, !.cpsr = TakeException(cpu.cpsr, MODE_IRQ)]
    /\ irq_pc' = "acked"
    /\ UNCHANGED <<timevars, schedvars, hwvars>>
    /\ UNCHANGED <<coop_check, switch_log, add_calls, ptimer>>

\* irq_handler: the isr registered for the line, if any; ptimer_isr counts a tick
BootIrqReact ==
    /\ irq_pc = "acked"
    /\ LET isr == irq_get_isr(isr_table, irq_id)
       IN  /\ irq_trace' = IF isr # "NULL"
                           THEN Append(irq_trace, [op |-> isr, id |-> irq_id])
                           ELSE irq_trace
           /\ systime' = IF isr = "ptimer_isr" THEN u32_add(systime, u32(1)) ELSE systime
    /\ irq_pc' = "reacted"
    /\ UNCHANGED <<callback_table, callback_table_mask, sched_ret, nticks, nsched, invoked,
                   due_before, live, last_invoked, prev_invoked, waiting, deferrals>>
    /\ UNCHANGED <<schedvars, irq_id, auxvars, hwvars>>

\* irq_handler: gic_end_interrupt(irq), and the return from the exception
BootIrqEnd ==
    /\ irq_pc = "reacted"
    /\ irq_pc' = "idle"
    /\ irq_trace' = Append(irq_trace, [op |-> "eoi", id |-> irq_handler_eoi(irq_id)])
    /\ cpu' = [cpu EXCEPT !.cpsr = cpu.spsr_irq]
    /\ UNCHANGED <<timevars, schedvars, irq_id, hwvars>>
    /\ UNCHANGED <<coop_check, switch_log, add_calls, ptimer>>

NextBoot ==
    \/ BootSetMode
    \/ BootCpsid
    \/ BootTestSys
    \/ BootTestSvc
    \/ BootTestBack
    \/ BootGicInitInterface
    \/ BootGicInitDistributor
    \/ BootEnable
    \/ BootCpuEnable
    \/ BootPtimerLoad
    \/ BootPtimerRegister
    \/ BootPtimerStart
    \/ BootIrqAck
    \/ BootIrqReact
    \/ BootIrqEnd

SpecBoot == InitBoot /\ [][NextBoot]_vars

\* where the boot sequence is before gic_init has returned
BeforeGicInitDone == {"reset", "test_sys", "test_svc", "test_back", "main", "gic_init"}

\* where it is before cpu_enable_interrupts has run
BeforeCpuEnable == BeforeGicInitDone \cup {"enable_uart", "enable_ptimer", "cpu_enable"}

\* gic_init completes, in a privileged mode, before any interrupt reaches the
\* dispatcher
InitializeBeforeDispatch ==
    /\ irq_pc # "idle" => main_pc \notin BeforeGicInitDone
    /\ Acks(irq_trace) > 0 => main_pc \notin BeforeGicInitDone
    /\ main_pc \in {"main", "gic_init"} => Privileged(cpu.cpsr)

\* IRQ and FIQ are masked from reset until gic_init and the two
\* gic_enable_interrupt calls have run
MaskedUntilEnabled ==
    main_pc \in BeforeCpuEnable => (cpu.cpsr.I = 1 /\ cpu.cpsr.F = 1)

\* the timer runs only with its isr registered
TimerStartedAfterRegistered ==
    "ENABLE" \in regs.CTRL => irq_get_isr(isr_table, PTIMER_INTERRUPT) = "ptimer_isr"

\* C30: in every boot sequence the controller's initialize() completes, in
\* privileged mode, before any interrupt can reach the dispatcher: processor
\* interrupts stay masked from reset until initialize() and the enable() calls have
\* run, and the timer is started only after its reaction has been registered.
C30_BootOrder ==
    /\ InitializeBeforeDispatch
    /\ MaskedUntilEnabled
    /\ TimerStartedAfterRegistered

---------------------------------------------------------------------------
(* Claims about collisions in the cooperative scheduler *)

\* sched_run examines a task in this step
CoopExamines == main_pc = "test" /\ (main_pc' = "stamp" \/ loop_i' # loop_i)

\* task j lost a collision to task i: i stands earlier in the table, j has not been
\* invoked since i was last invoked, and at that moment j's period had elapsed
LostCollision(i, j) ==
    /\ i < j
    /\ task_table[i].entry # "NULL"
    /\ u32_ge(u32_sub(systime, task_table[j].last_run),
              u32_sub(systime, task_table[i].last_run))
    /\ Due_elapsed(task_table[j].last_run, task_table[j].period, task_table[i].last_run)

\* C31 (as claimed): in cooperative mode tasks that are due in the same scan are
\* invoked in table order, each running to completion before the next task is
\* examined, and a task that loses such a collision is invoked as soon as the
\* earlier task has completed: while a task executes nothing is examined or
\* entered, the task examined after it is the next one of the table, and a task
\* examined after losing a collision is invoked.
C31_CollisionsInTableOrder ==
    /\ [][main_pc = "in_task"
            => /\ coop_check' = coop_check
               /\ task_table' = task_table
               /\ Len(task_stack') <= Len(task_stack)
               /\ main_pc' # "in_task" => (main_pc' = "test" /\ loop_i' = loop_i + 1)]_vars
    /\ [][(CoopExamines /\ \E i \in TaskIds : LostCollision(i, coop_next(loop_i)))
            => main_pc' = "stamp"]_vars

---------------------------------------------------------------------------
(* systime.c: systime_schedule_event in mainline context, statement by statement,
   with systime_tick arriving from the timer interrupt between any two of them *)

MaxRaceEvents == 2

\* the locals of the interrupted call: the arguments, and the halfword
\* callback_table_mask |= (1 << slot) has loaded and not stored yet
RaceFrame(timestamp, period, arg) ==
    [time |-> timestamp, period |-> period, arg |-> arg, mask |-> 0]

InitRace ==
    /\ systime \in StartTimes
    /\ InitTime /\ InitSched /\ InitIrq /\ InitHw
    /\ coop_check = NoCheck
    /\ switch_log = <<>>
    /\ add_calls = <<>>
    /\ ptimer = StoppedTimer(u32(0))
    /\ cpu = RaceFrame(u32(0), 0, 0)

RaceUnchanged ==
    /\ UNCHANGED <<systime, nticks, invoked, due_before, waiting, deferrals>>
    /\ UNCHANGED <<task_table, table_idx, current_task, task_stack,
                   req_entered, entries, overrun, start_tick, busy_ticks>>
    /\ UNCHANGED <<irqvars, hwvars, coop_check, switch_log, add_calls, ptimer>>

\* the call: systime_schedule_event(timestamp, period, callback, arg), slot = 0
RaceCall ==
    /\ main_pc = "main"
    /\ nsched < MaxRaceEvents
    /\ \E d \in 0 .. MaxDelay, period \in 0 .. MaxPeriod :
         cpu' = RaceFrame(u32_add(systime, u32(d)), period, nsched)
    /\ loop_i' = 0
    /\ main_pc' = "add_callback"
    /\ nsched' = nsched + 1
    /\ UNCHANGED <<callback_table, callback_table_mask, sched_ret,
                   live, last_invoked, prev_invoked>>
    /\ RaceUnchanged

\* slot < MAX_NUM_CALLBACKS, and add_callback's if (callback_table_mask & (1 << slot))
RaceTestSlot ==
    /\ main_pc = "add_callback"
    /\ IF loop_i >= MAX_NUM_CALLBACKS
       THEN /\ sched_ret' = SYSTIME_NO_CALLBACK_SLOTS
            /\ main_pc' = "main"
            /\ UNCHANGED loop_i
       ELSE IF MaskBit(callback_table_mask, loop_i)
            THEN /\ loop_i' = loop_i + 1
                 /\ UNCHANGED <<main_pc, sched_ret>>
            ELSE /\ main_pc' = "time"
                 /\ UNCHANGED <<loop_i, sched_ret>>
    /\ UNCHANGED <<callback_table, callback_table_mask, nsched, cpu,
                   live, last_invoked, prev_invoked>>
    /\ RaceUnchanged

\* one of the four assignments to the fields of callback_table[slot]
RaceWriteField(entry, then) ==
    /\ callback_table' = [callback_table EXCEPT ![loop_i] = entry]
    /\ main_pc' = then
    /\ UNCHANGED <<callback_table_mask, sched_ret, nsched, loop_i, cpu,
                   live, last_invoked, prev_invoked>>
    /\ RaceUnchanged

RaceWriteTime ==
    /\ main_pc = "time"
    /\ RaceWriteField([callback_table[loop_i] EXCEPT !.time = cpu.time], "period")

RaceWritePeriod ==
    /\ main_pc = "period"
    /\ RaceWriteField([callback_table[loop_i] EXCEPT !.period = cpu.period], "cb")

RaceWriteCb ==
    /\ main_pc = "cb"
    /\ RaceWriteField([callback_table[loop_i] EXCEPT !.cb = "cb"], "arg")

RaceWriteArg ==
    /\ main_pc = "arg"
    /\ RaceWriteField([callback_table[loop_i] EXCEPT !.arg = cpu.arg], "load")

\* callback_table_mask |= (1 << slot), its load
RaceLoadMask ==
    /\ main_pc = "load"
    /\ cpu' = [cpu EXCEPT !.mask = callback_table_mask]
    /\ main_pc' = "store"
    /\ UNCHANGED <<callback_table, callback_table_mask, sched_ret, nsched, loop_i,
                   live, last_invoked, prev_invoked>>
    /\ RaceUnchanged

\* the store of the loaded halfword with the slot's bit set; return 1, and
\* systime_schedule_event returns SYSTIME_CALLBACK_OK
RaceStoreMask ==
    /\ main_pc = "store"
    /\ callback_table_mask' = MaskSet(cpu.mask, loop_i)
    /\ sched_ret' = SYSTIME_CALLBACK_OK
    /\ main_pc' = "main"
    /\ live' = live \cup {loop_i}
    /\ last_invoked' = Without(last_invoked, {loop_i})
    /\ prev_invoked' = Without(prev_invoked, {loop_i})
    /\ UNCHANGED <<callback_table, nsched, loop_i, cpu>>
    /\ RaceUnchanged

NextRace ==
    \/ RaceCall
    \/ RaceTestSlot
    \/ RaceWriteTime
    \/ RaceWritePeriod
    \/ RaceWriteCb
    \/ RaceWriteArg
    \/ RaceLoadMask
    \/ RaceStoreMask
    \/ SystimeTick

SpecRace == InitRace /\ [][NextRace]_vars

OccupiedSlots == {s \in Slots : MaskBit(callback_table_mask, s)}

\* C32: systime_schedule_event in mainline context is safe against a tick between
\* any two of its steps: when the call has returned the occupancy mask agrees with
\* the slots that hold an event (so the bit of a one-shot the interrupting tick
\* freed is not set again), and a tick invokes only events that are still scheduled
\* (so no event is invoked more often than it was scheduled for).
C32_ScheduleEventSafeAgainstTick ==
    /\ [](main_pc = "main" => OccupiedSlots = live)
    /\ [][\A i \in 1 .. Len(invoked') : nticks' # nticks => invoked'[i] \in live]_vars

---------------------------------------------------------------------------
(* sched_preemptive.c: what the run loop enters *)

\* the run loop is at activate_task(current_task->entry)
AtActivate == main_pc = "call"

\* C33: every transition the timer-driven run loop performs enters the entry of a
\* task that was added with sched_add_task: at activate_task the reference is not
\* null and designates an added task, and the entry it calls is never NULL, for any
\* number of added tasks (zero too) and any interleaving with ticks.
C33_RunLoopEntersAddedTasksOnly ==
    /\ [](AtActivate => (current_task # NULL_TASK /\ current_task < table_idx))
    /\ [](AtActivate => task_table[current_task].entry # "NULL")
    /\ [](main_pc # "fault")

---------------------------------------------------------------------------
(* sched_preemptive.c: the reference current_task and the task that executes *)

\* the task whose entry is executing, NULL_TASK if the run loop is in none
ExecutingTask ==
    IF main_pc = "in_task" /\ task_stack # <<>>
    THEN task_stack[Len(task_stack)].id
    ELSE NULL_TASK

\* a request was written into current_task and the run loop has not entered it yet
RequestOutstanding == current_task # NULL_TASK /\ ~req_entered

ReferenceIsExecutingTask == ExecutingTask # NULL_TASK => current_task = ExecutingTask

ReferenceNullWhenIdle ==
    (main_pc \in {"main", "register", "loop"} /\ ~RequestOutstanding)
        => current_task = NULL_TASK

FromIsExecutingTask ==
    Len(switch_log') > Len(switch_log)
        => switch_log'[Len(switch_log')].from = ExecutingTask

\* C34: whenever a task is executing, current_task designates it; whenever no task
\* is executing and no request is outstanding, current_task is null; so the `from`
\* of every logged transition is the task executing at that moment, or idle.
C34_ReferenceNamesExecutingTask ==
    /\ []ReferenceIsExecutingTask
    /\ []ReferenceNullWhenIdle
    /\ [][FromIsExecutingTask]_vars

---------------------------------------------------------------------------
(* 07_interrupts cstart.c: irq_handler and the states of the controller's lines *)

MaxDispIrqs == 3

\* the lines whose devices raise requests: the UART, which main enables, and the
\* private timer, which this chapter's main leaves disabled
DispLines == {UART0_INTERRUPT, PTIMER_INTERRUPT}

\* bit `line % 32` of register `line / 32` of a per-line bit array of the distributor
LineBit(dregs, member, line) ==
    (line % 32) \in READ32(dregs, RegOffset(member, line \div 32))

SetLineBit(dregs, member, line) ==
    WRITE32(dregs, RegOffset(member, line \div 32),
            READ32(dregs, RegOffset(member, line \div 32)) \cup {line % 32})

ClearLineBit(dregs, member, line) ==
    WRITE32(dregs, RegOffset(member, line \div 32),
            READ32(dregs, RegOffset(member, line \div 32)) \ {line % 32})

\* the states of a line: pending (DISPENDR), active (DICDABR), both, or neither
LinePending(dregs, line) == LineBit(dregs, "DISPENDR", line)

LineActive(dregs, line) == LineBit(dregs, "DICDABR", line)

\* the lines the controller signals to the processor
Signalled(dregs, ifregs) ==
    {l \in DispLines : LinePending(dregs, l) /\ Forwards(dregs, ifregs, l)}

\* gic_acknowledge_interrupt: return gic_ifregs->CIAR & CIAR_ID_MASK.  The read
\* makes the signalled line `line` active; with no line signalled it returns the
\* all-ones identifier and changes no line
gic_acknowledge_interrupt(dregs, line) ==
    IF line = CIAR_ID_MASK
    THEN [id |-> CIAR_ID_MASK, dregs |-> dregs]
    ELSE [id |-> line % (CIAR_ID_MASK + 1),
          dregs |-> SetLineBit(ClearLineBit(dregs, "DISPENDR", line), "DICDABR", line)]

\* gic_end_interrupt: WRITE32(gic_ifregs->CEOIR, number & CEOIR_ID_MASK).  The write
\* ends the activity of an active line; the line stays pending if it was raised again
gic_end_interrupt(dregs, ifregs, number) ==
    [ifregs |-> [ifregs EXCEPT !.CEOIR = <<number % (CIAR_ID_MASK + 1)>>],
     dregs |-> IF LineActive(dregs, number % (CIAR_ID_MASK + 1))
               THEN ClearLineBit(dregs, "DICDABR", number % (CIAR_ID_MASK + 1))
               ELSE dregs]

\* the same handler with a test of the identifier before the completion
irq_handler_ends_guarded(irq) == irq # CIAR_ID_MASK

\* irq_handler: gic_end_interrupt(irq) follows the switch on every path
irq_handler_ends(irq) == TRUE

\* irq_handler, the switch: uart_isr for the UART's line, a message for any other
irq_handler_switch(irq) ==
    IF irq = UART0_INTERRUPT THEN "uart_isr" ELSE "Unknown interrupt!"

\* main of this chapter: gic_init(), gic_enable_interrupt(UART0_INTERRUPT)
InitDisp ==
    /\ systime = u32(0) /\ InitTime /\ InitSched /\ InitIrq /\ InitAux
    /\ gic_dregs = gic_enable_interrupt(gic_init_distributor(ResetDregs), UART0_INTERRUPT)
    /\ gic_ifregs = gic_init_interface(ResetIfregs)
    /\ regs = ResetRegs
    /\ isr_table = UartIsrs
    /\ drv_call = DrvCall("gic_enable_interrupt", UART0_INTERRUPT, TRUE, "void")

DispUnchanged ==
    /\ UNCHANGED <<timevars, schedvars, auxvars, regs, isr_table, drv_call>>

\* a device raises its line: an inactive line becomes pending, an active one
\* active and pending
DispRaise ==
    /\ \E l \in DispLines :
         /\ ~LinePending(gic_dregs, l)
         /\ gic_dregs' = SetLineBit(gic_dregs, "DISPENDR", l)
    /\ UNCHANGED <<gic_ifregs, irqvars>>
    /\ DispUnchanged

\* a device withdraws its request before the processor has acknowledged it
DispWithdraw ==
    /\ \E l \in DispLines :
         /\ LinePending(gic_dregs, l)
         /\ gic_dregs' = ClearLineBit(gic_dregs, "DISPENDR", l)
    /\ UNCHANGED <<gic_ifregs, irqvars>>
    /\ DispUnchanged

\* the processor takes the IRQ exception and enters irq_handler
DispTake ==
    /\ irq_pc = "idle"
    /\ Acks(irq_trace) < MaxDispIrqs
    /\ Signalled(gic_dregs, gic_ifregs) # {}
    /\ irq_pc' = "entered"
    /\ UNCHANGED <<gic_dregs, gic_ifregs, irq_id, irq_trace>>
    /\ DispUnchanged

\* irq_handler: irq = gic_acknowledge_interrupt()
DispAcknowledge ==
    /\ irq_pc = "entered"
    /\ \E l \in IF Signalled(gic_dregs, gic_ifregs) = {}
                THEN {CIAR_ID_MASK}
                ELSE Signalled(gic_dregs, gic_ifregs) :
         LET r == gic_acknowledge_interrupt(gic_dregs, l)
         IN  /\ irq_id' = r.id
             /\ gic_dregs' = r.dregs
             /\ irq_trace' = Append(irq_trace, [op |-> "ack", id |-> r.id])
    /\ irq_pc' = "acked"
    /\ UNCHANGED gic_ifregs
    /\ DispUnchanged

\* irq_handler: switch (irq)
DispSwitch ==
    /\ irq_pc = "acked"
    /\ irq_trace' = Append(irq_trace, [op |-> irq_handler_switch(irq_id), id |-> irq_id])
    /\ irq_pc' = "reacted"
    /\ UNCHANGED <<gic_dregs, gic_ifregs, irq_id>>
    /\ DispUnchanged

\* irq_handler: gic_end_interrupt(irq), and the return from the exception
DispEnd ==
    /\ irq_pc = "reacted"
    /\ IF irq_handler_ends(irq_id)
       THEN LET r == gic_end_interrupt(gic_dregs, gic_ifregs, irq_id)
            IN  /\ gic_dregs' = r.dregs
                /\ gic_ifregs' = r.ifregs
                /\ irq_trace' = Append(irq_trace, [op |-> "eoi", id |-> irq_id])
       ELSE UNCHANGED <<gic_dregs, gic_ifregs, irq_trace>>
    /\ irq_pc' = "idle"
    /\ UNCHANGED irq_id
    /\ DispUnchanged

NextDisp ==
    \/ DispRaise
    \/ DispWithdraw
    \/ DispTake
    \/ DispAcknowledge
    \/ DispSwitch
    \/ DispEnd

SpecDisp == InitDisp /\ [][NextDisp]_vars

\* the handler signals the completion of irq_id in this step
SignalsCompletion ==
    /\ irq_pc = "reacted"
    /\ Len(irq_trace') > Len(irq_trace)
    /\ irq_trace'[Len(irq_trace')].op = "eoi"

\* C35: the dispatcher issues end_of_interrupt only for a line that is active (or
\* active and pending), never for an identifier acknowledge did not move to active,
\* the no-line-pending identifier included; after the completion the line is
\* inactive, or pending if its source raised it again during handling.
C35_CompletionOnlyForActiveLine ==
    [][SignalsCompletion
          => /\ irq_id # CIAR_ID_MASK
             /\ LineActive(gic_dregs, irq_id)
             /\ ~LineActive(gic_dregs', irq_id)
             /\ LinePending(gic_dregs', irq_id) = LinePending(gic_dregs, irq_id)]_vars

---------------------------------------------------------------------------
(* gic_enable_interrupt: what a call leaves alone *)

\* all lines of the controller
AllLines == 0 .. (NumLines - 1)

\* this step is the call gic_enable_interrupt(n)
EnableCall(n) ==
    /\ drv_call'.op = "gic_enable_interrupt"
    /\ drv_call'.arg = n
    /\ gic_dregs' = gic_enable_interrupt(gic_dregs, n)

\* the call changes nothing of the lines other than n, and of line n's target byte
\* only the bit of CPU interface 0
OnlyLineChanged(n) ==
    /\ \A m \in AllLines \ {n} :
         /\ LineEnabled(gic_dregs', m) = LineEnabled(gic_dregs, m)
         /\ LineTargets(gic_dregs', m) = LineTargets(gic_dregs, m)
    /\ LineTargets(gic_dregs', n) \ {0} = LineTargets(gic_dregs, n) \ {0}

\* the last call before this one enabled the same line
EnabledBefore(n) == drv_call.op = "gic_enable_interrupt" /\ drv_call.arg = n

\* C36: enable(N) changes only line N: the enable bits and target bytes of all
\* other lines and the other bits of line N's target byte keep their values, and
\* enable(N) for a line that is already enabled changes nothing.
C36_EnableChangesOnlyItsLine ==
    [][\A n \in Uint8 :
          EnableCall(n) => /\ OnlyLineChanged(n)
                           /\ EnabledBefore(n) => gic_dregs' = gic_dregs]_vars

---------------------------------------------------------------------------
(* check_callbacks: which of several due events a tick invokes *)

\* the events of the timer-driven scheduler among the slots in `slots`
TaskEvents(slots) == {s \in slots : callback_table[s].cb = "task_switch_callback"}

\* C37: when several events are due at the same tick, the one invoked at that tick
\* is the one in the lowest-numbered of their slots; for the events sched_run
\* registered, the task added earlier (the lower task id) wins the collision.
C37_LowestDueSlotWins ==
    due_before # {} =>
        /\ Len(invoked) = 1
        /\ invoked[1] \in due_before
        /\ \A s \in due_before : invoked[1] <= s
        /\ \A s \in TaskEvents(due_before) :
              invoked[1] \in TaskEvents(due_before)
                  => callback_table[invoked[1]].arg <= callback_table[s].arg

\* the events of two tasks were due at the same tick, and the callback of the task
\* added first was the one invoked
C37_Witness ==
    /\ Cardinality(TaskEvents(due_before)) >= 2
    /\ Len(invoked) = 1
    /\ callback_table[invoked[1]].arg = 0
    /\ \E s \in due_before : callback_table[s].arg = 1

---------------------------------------------------------------------------
(* uart_write_uint: the decimal output of the transition log *)

\* char buf[8]
UINT_BUF_SIZE == 8

\* the character code of '0'
CHAR_0 == 48

\* num % 10 and num / 10 of a uint32_t
u32_mod10(n) == ((n.hi % 10) * W16 + n.lo) % 10

u32_div10(n) == [hi |-> n.hi \div 10, lo |-> ((n.hi % 10) * W16 + n.lo) \div 10]

\* values of the tick counter: one and two digits, values of the documented log,
\* the largest with eight digits, the smallest with nine, and the counter's last
UintValues ==
    {u32(0), u32(7), u32(10), u32(2000), u32(10001), u32(1234567),
     u32(99999999), u32(100000000), u32(987654321), u32_sub(u32(0), u32(1))}

\* the locals of the call: num, buf, i, and the bytes stored past the end of buf
UintFrame(num) == [num |-> num, buf |-> <<>>, i |-> 0, past |-> <<>>]

\* task_switch_callback calls uart_write_uint(systime_get())
InitUint ==
    /\ systime \in UintValues
    /\ InitTime /\ InitSched /\ InitIrq /\ InitHw
    /\ coop_check = NoCheck
    /\ switch_log = <<>>
    /\ add_calls = <<>>
    /\ ptimer = StoppedTimer(u32(0))
    /\ cpu = UintFrame(systime)

UintUnchanged ==
    /\ UNCHANGED <<timevars, irqvars, hwvars, coop_check, add_calls, ptimer>>
    /\ UNCHANGED <<task_table, table_idx, current_task, loop_i, task_stack,
                   req_entered, entries, overrun, start_tick, busy_ticks>>

\* one iteration of the do loop: buf[i++] = '0' + num % 10; num /= 10;
\* while (num != 0)
UintStoreDigit ==
    /\ main_pc = "main"
    /\ LET c == CHAR_0 + u32_mod10(cpu.num)
           q == u32_div10(cpu.num)
       IN  /\ cpu' = [cpu EXCEPT !.num = q,
                                 !.i = cpu.i + 1,
                                 !.buf = IF cpu.i < UINT_BUF_SIZE THEN Append(@, c) ELSE @,
                                 !.past = IF cpu.i < UINT_BUF_SIZE THEN @ ELSE Append(@, c)]
           /\ main_pc' = IF q # u32(0) THEN "main" ELSE "emit"
    /\ UNCHANGED switch_log
    /\ UintUnchanged

\* one iteration of the for loop: i--, i >= 0, uart_putchar(buf[i]).  A byte past
\* the end of buf reads as it was stored, or as whatever overwrote it since
UintPutchar ==
    /\ main_pc = "emit"
    /\ cpu.i > 0
    /\ LET i == cpu.i - 1
       IN  /\ cpu' = [cpu EXCEPT !.i = i]
           /\ \E c \in IF i < UINT_BUF_SIZE
                       THEN {cpu.buf[i + 1]}
                       ELSE {cpu.past[i + 1 - UINT_BUF_SIZE], 0} :
                switch_log' = Append(switch_log, c)
    /\ main_pc' = "emit"
    /\ UintUnchanged

\* the for loop ends, uart_write_uint returns
UintReturn ==
    /\ main_pc = "emit"
    /\ cpu.i = 0
    /\ main_pc' = "returned"
    /\ UNCHANGED <<cpu, switch_log>>
    /\ UintUnchanged

NextUint == UintStoreDigit \/ UintPutchar \/ UintReturn

SpecUint == InitUint /\ [][NextUint]_vars

\* the number a string of decimal digit characters denotes, as high and low half
RECURSIVE DecimalValue(_)
DecimalValue(s) ==
    IF s = <<>>
    THEN [hi |-> 0, lo |-> 0]
    ELSE LET v == DecimalValue(SubSeq(s, 1, Len(s) - 1))
             lo == v.lo * 10 + (s[Len(s)] - CHAR_0)
         IN  [hi |-> v.hi * 10 + lo \div W16, lo |-> lo % W16]

\* the output is the decimal numeral of num: digits only, no leading zero
IsNumeralOf(s, num) ==
    /\ s # <<>>
    /\ \A k \in DOMAIN s : s[k] \in CHAR_0 .. (CHAR_0 + 9)
    /\ (Len(s) > 1 => s[1] # CHAR_0)
    /\ DecimalValue(s) = num

\* C38: for every 32-bit value of the tick counter uart_write_uint stays within
\* its 8-character buffer and emits the correct decimal digits.
C38_DecimalWithinBuffer ==
    /\ cpu.past = <<>>
    /\ cpu.i <= UINT_BUF_SIZE
    /\ main_pc = "returned" => IsNumeralOf(switch_log, systime)

====
